---- MODULE Spec2Model ----
(***************************************************************************)
(* Inventory allocation and reconciliation of the ERP front end:           *)
(*   - the Delivery Challan page (FIFO batch picking, create / edit /      *)
(*     delete of a challan with its stock bookkeeping, approval workflow), *)
(*   - the Receivables page (payment recording and allocation).            *)
(* The remote tables are variables tbl_*; the React state of each browser  *)
(* session is ui[s] (challan page) and rui[s] (receivables page); the      *)
(* position of a running async handler and its locals are run[s].          *)
(***************************************************************************)
EXTENDS Integers, Sequences, FiniteSets, TLC

VARIABLES
    tbl_batches,        \* table batches: id -> row
    tbl_reservations,   \* stock reserved per batch for the sales order
    tbl_challans,       \* table delivery_challans: id -> row (exists flag)
    tbl_items,          \* table delivery_challan_items: challan id -> rows
    tbl_so,             \* table sales_orders (one order): row
    tbl_so_items,       \* table sales_order_items of the order: rows
    ui,                 \* DeliveryChallan component state, per session
    run,                \* running DeliveryChallan handler, per session
    hist,               \* history of the current handleSubmit, per session
    tbl_invoices,       \* table sales_invoices: id -> row
    tbl_payments,       \* table customer_payments: rows in insertion order
    tbl_allocations,    \* table invoice_payment_allocations: rows in insertion order
    rui,                \* ReceivablesManager component state, per session
    tbl_products,       \* table products: ids of the rows
    tbl_invoice_items,  \* table sales_invoice_items: rows
    tbl_batch_documents,        \* table batch_documents: rows
    tbl_inventory_transactions, \* table inventory_transactions: rows
    tbl_finance_expenses,       \* table finance_expenses: rows
    tbl_product_files,  \* table product_files: rows
    tbl_returns,        \* table material_returns: rows in insertion order
    tbl_return_items,   \* table material_return_items: rows in insertion order
    pui,                \* Products component state and running handler, per session
    mui                 \* MaterialReturns component state and running handler, per session

dbvars  == <<tbl_batches, tbl_reservations, tbl_challans, tbl_items, tbl_so, tbl_so_items>>
payvars == <<tbl_invoices, tbl_payments, tbl_allocations, rui>>
prodvars == <<tbl_products, tbl_invoice_items, tbl_batch_documents,
              tbl_inventory_transactions, tbl_finance_expenses, tbl_product_files, pui>>
retvars  == <<tbl_returns, tbl_return_items, mui>>
vars    == <<tbl_batches, tbl_reservations, tbl_challans, tbl_items, tbl_so, tbl_so_items,
             ui, run, hist, tbl_invoices, tbl_payments, tbl_allocations, rui,
             tbl_products, tbl_invoice_items, tbl_batch_documents,
             tbl_inventory_transactions, tbl_finance_expenses, tbl_product_files, pui,
             tbl_returns, tbl_return_items, mui>>

----------------------------------------------------------------------------
(* Bounds of the model *)

MaxQty     == 2     \* largest number of packs typed into a line item
MaxItems   == 2     \* most line items on the challan form

(* The clock: new Date() falls on this day *)
Today == 2

NULL == "null"
Empty == ""
\* a null date column (dates are day numbers from 1)
NoDate == 0
\* a null pack_size (null and 0 are both falsy where it is tested)
NoPack == 0

Sessions   == {"s1", "s2"}
ProductIds == {"P"}
BatchIds   == {"A", "B"}
ChallanIds == {"c1", "c2"}
SoId       == "so1"
Roles      == {"admin", "sales"}

----------------------------------------------------------------------------
(* Helpers over sequences *)

RECURSIVE SumQty(_, _)
\* total quantity of the line items of `its` that reference batch b
SumQty(its, b) ==
    IF its = <<>> THEN 0
    ELSE (IF Head(its).batch_id = b THEN Head(its).quantity ELSE 0) + SumQty(Tail(its), b)

RECURSIVE SumAdj(_, _)
\* total of the stockAdjustments entries for batch b
SumAdj(adjs, b) ==
    IF adjs = <<>> THEN 0
    ELSE (IF Head(adjs).batch_id = b THEN Head(adjs).adjustment ELSE 0) + SumAdj(Tail(adjs), b)

\* Array.prototype.filter
Filter(seq, Keep(_)) == SelectSeq(seq, Keep)

\* Array.prototype.find as an index: the first i with Test(seq[i]), 0 when none
FindIndex(seq, Test(_)) ==
    IF \E i \in 1..Len(seq) : Test(seq[i])
    THEN CHOOSE i \in 1..Len(seq) : Test(seq[i]) /\ \A j \in 1..(i-1) : ~Test(seq[j])
    ELSE 0

----------------------------------------------------------------------------
(* Batches: expiry, loading, FIFO *)

\* isExpired: a date-only expiry parses to midnight of its day, the clock reads
\* later within Today, so the day Today itself already compares as past.
isExpired(expiryDate) ==
    IF expiryDate = NoDate THEN FALSE ELSE expiryDate <= Today

\* the columns loadBatches selects (reserved_stock is not among them)
BatchRow(tbl, b) ==
    [id |-> b, product_id |-> tbl[b].product_id, current_stock |-> tbl[b].current_stock,
     expiry_date |-> tbl[b].expiry_date, import_date |-> tbl[b].import_date]

\* the results loadBatches can get: rows with current_stock > 0 ordered by
\* import_date ascending; rows with equal import_date come in any order
LoadedBatches(tbl) ==
    LET ids == {b \in BatchIds : tbl[b].current_stock > 0}
        n   == Cardinality(ids)
    IN { [i \in 1..n |-> BatchRow(tbl, f[i])] :
            f \in { g \in [1..n -> ids] :
                      /\ \A i, j \in 1..n : i # j => g[i] # g[j]
                      /\ \A i, j \in 1..n : i < j => tbl[g[i]].import_date <= tbl[g[j]].import_date } }

\* insertion of x into a sequence sorted by import_date, after its equals:
\* Array.prototype.sort is stable
RECURSIVE InsertByImport(_, _)
InsertByImport(sorted, x) ==
    IF sorted = <<>> THEN <<x>>
    ELSE IF x.import_date < Head(sorted).import_date THEN <<x>> \o sorted
    ELSE <<Head(sorted)>> \o InsertByImport(Tail(sorted), x)

RECURSIVE SortByImport(_)
SortByImport(seq) ==
    IF seq = <<>> THEN <<>>
    ELSE InsertByImport(SortByImport(SubSeq(seq, 1, Len(seq) - 1)), seq[Len(seq)])

FIFOKeep(productId, b) == b.product_id = productId /\ ~isExpired(b.expiry_date)

\* getFIFOBatch: the first not expired batch of the product by import date, or NULL
getFIFOBatch(batches, productId) ==
    LET Keep(b) == FIFOKeep(productId, b)
        productBatches == SortByImport(Filter(batches, Keep))
    IN IF productBatches = <<>> THEN NULL ELSE productBatches[1].id

----------------------------------------------------------------------------
(* The Delivery Challan page: component state *)

EmptyItem == [product_id |-> Empty, batch_id |-> Empty, quantity |-> 0, pack_size |-> NoPack]

\* the pack size parsed from a batch's packaging_details ("1 drum x 1kg")
PackSize(b) == 1
\* the number of packs parsed from a batch's packaging_details
PacksOf(b) == 1

\* the year code of generateNextChallanNumber: the last two digits of the year
YearCode == 25

\* String(n).padStart(4, '0'), as a sequence of decimal digits
PadStart4(n) == <<(n \div 1000) % 10, (n \div 100) % 10, (n \div 10) % 10, n % 10>>

RECURSIVE parseInt(_)
\* parseInt of the digits matched by /(\d+)$/
parseInt(digits) ==
    IF digits = <<>> THEN 0
    ELSE 10 * parseInt(SubSeq(digits, 1, Len(digits) - 1)) + digits[Len(digits)]

\* the challan number `${prefix}-${yearCode}-${paddedNumber}`
ChallanNumber(prefix, yearCode, n) ==
    [prefix |-> prefix, year |-> yearCode, digits |-> PadStart4(n)]

\* the '' of a form that has no challan number
NoNumber == [prefix |-> Empty, year |-> 0, digits |-> <<>>]

\* a challan entered in the year before: its number is not among those the
\* generator reads
LastYearNumber(n) == ChallanNumber("DO", YearCode - 1, n)

NoChallan == [exists |-> FALSE, approval_status |-> NULL, sales_order_id |-> NULL,
              rejection_reason |-> NULL, challan_number |-> NoNumber]

\* useState initial values and resetForm
BlankForm == [sales_order_id |-> Empty, challan_number |-> NoNumber]

IdleRun == [pc |-> "idle", alert |-> NULL, stockAdjustments |-> <<>>, idx |-> 0,
            newStock |-> 0, challanId |-> NULL]

NoHist == [ran |-> FALSE, kind |-> NULL, target |-> NULL, stockAtStart |-> [b \in BatchIds |-> 0],
           submitted |-> <<>>, adjFailed |-> FALSE, fifo |-> [product_id |-> NULL, batch |-> NULL]]

StockOf(tbl) == [b \in BatchIds |-> tbl[b].current_stock]

\* canManage: who sees the create / edit / delete buttons
canManage(role) == role \in {"admin", "accounts", "sales", "warehouse"}

canApproveAnyRole(role, challan) == challan.approval_status = "pending_approval"

\* the approve / reject buttons of the approval_status column
canApprove(role, challan) == challan.approval_status = "pending_approval" /\ role = "admin"

Idle(s) == run[s].pc = "idle"

\* each session is followed through one handleSubmit run that passes validation;
\* the form is worked on only until then
CanSubmit(s) == ~hist[s].ran
FormOpen(s) == Idle(s) /\ ui[s].modalOpen /\ CanSubmit(s)

InitBatches ==
    [b \in BatchIds |->
        IF b = "A"
        THEN [product_id |-> "P", current_stock |-> 3, reserved_stock |-> 1,
              expiry_date |-> NoDate, import_date |-> 1]
        ELSE [product_id |-> "P", current_stock |-> 1, reserved_stock |-> 0,
              expiry_date |-> Today + 1, import_date |-> 2]]

\* the line items challan c1 can have on file
InitItems ==
    { <<[product_id |-> "P", batch_id |-> "A", quantity |-> 1, pack_size |-> 1]>>,
      <<[product_id |-> "P", batch_id |-> "A", quantity |-> 1, pack_size |-> 1],
        [product_id |-> "P", batch_id |-> "A", quantity |-> 1, pack_size |-> 1]>> }

\* challan c1 is on file, either entered by hand while the order waits with its
\* stock reserved, or created from the order as a part delivery
InitOrders ==
    /\ tbl_reservations = [b \in BatchIds |-> IF b = "A" THEN 1 ELSE 0]
    /\ \E linked \in BOOLEAN :
         /\ tbl_challans = [c \in ChallanIds |->
                IF c = "c1"
                THEN [exists |-> TRUE, approval_status |-> "pending_approval",
                      sales_order_id |-> IF linked THEN SoId ELSE NULL,
                      rejection_reason |-> NULL,
                      challan_number |-> LastYearNumber(1)]
                ELSE NoChallan]
         /\ tbl_so = [status |-> IF linked THEN "partially_delivered" ELSE "stock_reserved",
                      is_archived |-> FALSE]
         /\ tbl_so_items = << [product_id |-> "P", quantity |-> 2,
                               delivered_quantity |-> IF linked THEN 1 ELSE 0] >>
    /\ \E c1Items \in InitItems :
         tbl_items = [c \in ChallanIds |-> IF c = "c1" THEN c1Items ELSE <<>>]

InitDb ==
    /\ tbl_batches = InitBatches
    /\ InitOrders

\* the component after mount: its useEffect has loaded challans and batches
InitUi(roles) ==
    /\ ui \in [Sessions -> [role : roles,
                            challans : {tbl_challans},
                            batches : LoadedBatches(tbl_batches),
                            salesOrders : {{}},
                            modalOpen : {FALSE},
                            editingChallan : {NULL},
                            originalItems : {<<>>},
                            items : {<<EmptyItem>>},
                            formData : {BlankForm},
                            showRejectModal : {FALSE},
                            challanToReject : {NULL},
                            rejectionReason : {Empty}]]
    /\ run = [s \in Sessions |-> IdleRun]
    /\ hist = [s \in Sessions |-> NoHist]

(* Receivables page: tables and component state *)

MaxAmount   == 2    \* largest amount typed into an amount field
MaxPayments == 2    \* most rows of customer_payments
MaxReturns  == 2     \* most material returns recorded

InvoiceIds == {"i1", "i2"}

RECURSIVE SumOver(_, _)
SumOver(f, S) ==
    IF S = {} THEN 0
    ELSE LET x == CHOOSE y \in S : TRUE IN f[x] + SumOver(f, S \ {x})

Min(a, b) == IF a <= b THEN a ELSE b

\* rows of invoice_payment_allocations of one invoice, added up (server side)
get_invoice_paid_amount(allocs, invoiceId) ==
    SumOver([k \in 1..Len(allocs) |->
                IF allocs[k].invoice_id = invoiceId THEN allocs[k].allocated_amount ELSE 0],
            1..Len(allocs))

payment_status_inclusive(invoices, allocs, invoiceId) ==
    LET paid == get_invoice_paid_amount(allocs, invoiceId)
    IN IF paid = 0 THEN "pending"
       ELSE IF paid <= invoices[invoiceId].total_amount THEN "partial"
       ELSE "paid"

\* payment_status of an invoice, kept by the backend from its paid amount
payment_status(invoices, allocs, invoiceId) ==
    LET paid == get_invoice_paid_amount(allocs, invoiceId)
    IN IF paid = 0 THEN "pending"
       ELSE IF paid < invoices[invoiceId].total_amount THEN "partial"
       ELSE "paid"

NoInvoiceRow == [listed |-> FALSE, paid_amount |-> 0]
NoAllocation == [selected |-> FALSE, amount |-> 0]

\* the rows the pending/partial query returns, each with its paid_amount; the
\* rpc of the invoices in rpcFailed returns no data and paid_amount becomes 0
InvoicesWithPaid(invoices, allocs, rpcFailed) ==
    [i \in InvoiceIds |->
        IF invoices[i].payment_status \in {"pending", "partial"}
        THEN [listed |-> TRUE,
              paid_amount |-> IF i \in rpcFailed THEN 0
                              ELSE get_invoice_paid_amount(allocs, i)]
        ELSE NoInvoiceRow]

BlankReceivables ==
    [invoices |-> [i \in InvoiceIds |-> NoInvoiceRow],
     modalOpen |-> FALSE,
     selectedInvoice |-> NULL,
     customerInvoices |-> [i \in InvoiceIds |-> NoInvoiceRow],
     selectedAllocations |-> [i \in InvoiceIds |-> NoAllocation],
     amount |-> 0,
     pc |-> "idle", alert |-> NULL, paymentId |-> 0]

InitInvoices ==
    [i \in InvoiceIds |->
        [customer_id |-> "cust", total_amount |-> IF i = "i1" THEN 2 ELSE 1,
         payment_status |-> "pending"]]

\* the page is mounted and its first loadData has run
InitPay ==
    /\ tbl_invoices = InitInvoices
    /\ tbl_payments = <<>>
    /\ tbl_allocations = <<>>
    /\ rui = [s \in Sessions |->
                [BlankReceivables EXCEPT
                    !.invoices = InvoicesWithPaid(InitInvoices, <<>>, {})]]

\* the Products page after mount, with both products on file and nothing else
\* that refers to them
IdleProducts == [pc |-> "idle", alert |-> NULL, product |-> NULL, batches |-> <<>>, idx |-> 0]

InitProducts ==
    /\ tbl_products = {"P", "Q"}
    /\ tbl_invoice_items = {}
    /\ tbl_batch_documents = {}
    /\ tbl_inventory_transactions = {}
    /\ tbl_finance_expenses = {}
    /\ tbl_product_files = {}
    /\ pui = [s \in Sessions |-> IdleProducts]

\* the Material Returns page after mount, with no return on file
BlankReturnForm == [customer_id |-> Empty, original_dc_id |-> Empty, return_reason |-> Empty]

IdleReturns == [pc |-> "idle", alert |-> NULL, modalOpen |-> FALSE, formData |-> BlankReturnForm,
                returnItems |-> <<>>, returnId |-> 0]

InitReturns ==
    /\ tbl_returns = <<>>
    /\ tbl_return_items = <<>>
    /\ mui = [s \in Sessions |-> IdleReturns]

Init ==
    /\ InitDb
    /\ InitUi(Roles)
    /\ ui["s1"].role = "admin"
    /\ ui["s2"].role = "sales"
    /\ InitPay
    /\ InitProducts
    /\ InitReturns

----------------------------------------------------------------------------
(* The Delivery Challan page: form handlers *)

\* alert(msg): the handler ends behind a blocking dialog
Alert(s, msg) == run' = [run EXCEPT ![s] = [IdleRun EXCEPT !.pc = "alert", !.alert = msg]]

DismissAlert(s) ==
    /\ run[s].pc = "alert"
    /\ run' = [run EXCEPT ![s] = IdleRun]
    /\ hist' = [hist EXCEPT ![s] = [NoHist EXCEPT !.ran = hist[s].ran]]
    /\ UNCHANGED <<dbvars, ui, payvars, prodvars, retvars>>

\* resetForm
resetForm(u) ==
    [u EXCEPT !.editingChallan = NULL, !.originalItems = <<>>,
              !.formData = BlankForm, !.items = <<EmptyItem>>]

\* the challans whose number matches DO-<yearCode>% or DC-<yearCode>%
NumberedThisYear(challans) ==
    {c \in ChallanIds : /\ challans[c].exists
                        /\ challans[c].challan_number.prefix \in {"DO", "DC"}
                        /\ challans[c].challan_number.year = YearCode}

\* generateNextChallanNumber when its select returns the rows
generateNextChallanNumber(challans) ==
    LET allChallans == NumberedThisYear(challans)
        numbers == {parseInt(challans[c].challan_number.digits) : c \in allChallans}
        nextNumber == IF allChallans = {} THEN 1
                      ELSE (CHOOSE m \in numbers : \A n \in numbers : n <= m) + 1
    IN ChallanNumber("DO", YearCode, nextNumber)

\* what generateNextChallanNumber can return: the select's error is not read,
\* so without data nextNumber stays 1; a thrown error returns 'DO-25-0001'
GeneratedNumbers(challans) ==
    {generateNextChallanNumber(challans), ChallanNumber("DO", YearCode, 1),
     ChallanNumber("DO", 25, 1)}

\* the "Create Delivery Challan" button
OpenCreate(s) ==
    /\ Idle(s) /\ ~ui[s].modalOpen /\ ~ui[s].showRejectModal
    /\ CanSubmit(s)
    /\ canManage(ui[s].role)
    /\ \E nextChallanNumber \in GeneratedNumbers(tbl_challans) :
         ui' = [ui EXCEPT ![s] = [resetForm(ui[s]) EXCEPT
                                     !.modalOpen = TRUE,
                                     !.formData.challan_number = nextChallanNumber]]
    /\ UNCHANGED <<dbvars, run, hist, payvars, prodvars, retvars>>

\* Modal onClose / Cancel
CloseModal(s) ==
    /\ Idle(s) /\ ui[s].modalOpen
    /\ ui' = [ui EXCEPT ![s] = [resetForm(ui[s]) EXCEPT !.modalOpen = FALSE]]
    /\ UNCHANGED <<dbvars, run, hist, payvars, prodvars, retvars>>

\* loadSalesOrders: the orders that can still be dispatched
SelectableOrders(so) ==
    IF so.status \in {"approved", "stock_reserved", "shortage", "pending_delivery"}
       /\ ~so.is_archived
    THEN {SoId} ELSE {}

\* handleCustomerChange (with its loadSalesOrders, which keeps the old list on error)
handleCustomerChange(s) ==
    /\ FormOpen(s)
    /\ ui[s].formData.sales_order_id = Empty
    /\ \E ok \in BOOLEAN :
         ui' = [ui EXCEPT ![s].formData.sales_order_id = Empty,
                          ![s].salesOrders = IF ok THEN SelectableOrders(tbl_so) ELSE @]
    /\ UNCHANGED <<dbvars, run, hist, payvars, prodvars, retvars>>

\* the batch handleSalesOrderChange pre-selects for an order line
PrefillBatch(batches, productId) ==
    LET Keep(b) == b.product_id = productId /\ b.current_stock > 0
        productBatches == Filter(batches, Keep)
    IN IF Len(productBatches) > 0 THEN productBatches[1].id ELSE NULL

PrefillItem(batches, soItem) ==
    LET fifoBatch == PrefillBatch(batches, soItem.product_id)
    IN IF fifoBatch = NULL
       THEN [product_id |-> soItem.product_id, batch_id |-> Empty,
             quantity |-> soItem.quantity, pack_size |-> NoPack]
       ELSE [product_id |-> soItem.product_id, batch_id |-> fifoBatch,
             quantity |-> soItem.quantity, pack_size |-> PackSize(fifoBatch)]

handleSalesOrderChange(s, soId) ==
    /\ FormOpen(s)
    /\ soId \in {Empty} \cup ui[s].salesOrders
    /\ soId # ui[s].formData.sales_order_id
    /\ \/ /\ soId = Empty
          /\ ui' = [ui EXCEPT ![s].formData.sales_order_id = Empty, ![s].items = <<EmptyItem>>]
          /\ UNCHANGED run
       \/ /\ soId # Empty
          /\ ui' = [ui EXCEPT ![s].formData.sales_order_id = soId,
                              ![s].items = [i \in 1..Len(tbl_so_items) |->
                                               PrefillItem(ui[s].batches, tbl_so_items[i])]]
          /\ UNCHANGED run
       \/ /\ soId # Empty      \* the sales_order_items query fails
          /\ ui' = [ui EXCEPT ![s].formData.sales_order_id = soId]
          /\ Alert(s, "Failed to load Sales Order items")
    /\ UNCHANGED <<dbvars, hist, payvars, prodvars, retvars>>

\* product <select> onChange of line i
SelectProduct(s, i, p) ==
    /\ FormOpen(s)
    /\ i \in 1..Len(ui[s].items)
    /\ p # ui[s].items[i].product_id
    /\ ui' = [ui EXCEPT ![s].items[i].product_id = p, ![s].items[i].batch_id = Empty]
    /\ UNCHANGED <<dbvars, run, hist, payvars, prodvars, retvars>>

\* the state handleBatchChange leaves: batch, pack data and quantity of line index
BatchChanged(u, index, batchId) ==
    IF \E k \in 1..Len(u.batches) : u.batches[k].id = batchId
    THEN [u EXCEPT !.items[index].batch_id = batchId,
                   !.items[index].pack_size = PackSize(batchId),
                   !.items[index].quantity = PackSize(batchId) * PacksOf(batchId)]
    ELSE u

\* batch <select> onChange of line index: the options are the loaded batches of the product
handleBatchChange(s, index, batchId) ==
    /\ FormOpen(s)
    /\ index \in 1..Len(ui[s].items)
    /\ ui[s].items[index].product_id # Empty
    /\ \E k \in 1..Len(ui[s].batches) :
          /\ ui[s].batches[k].id = batchId
          /\ ui[s].batches[k].product_id = ui[s].items[index].product_id
    /\ batchId # ui[s].items[index].batch_id
    /\ ui' = [ui EXCEPT ![s] = BatchChanged(ui[s], index, batchId)]
    /\ UNCHANGED <<dbvars, run, hist, payvars, prodvars, retvars>>

\* the "Use FIFO" button of line index
UseFIFO(s, index) ==
    /\ FormOpen(s)
    /\ index \in 1..Len(ui[s].items)
    /\ ui[s].items[index].product_id # Empty
    /\ \E k \in 1..Len(ui[s].batches) :
          ui[s].batches[k].product_id = ui[s].items[index].product_id
    /\ LET productId == ui[s].items[index].product_id
           fifoBatch == getFIFOBatch(ui[s].batches, productId)
       IN /\ ui' = [ui EXCEPT ![s] = IF fifoBatch # NULL
                                     THEN BatchChanged(ui[s], index, fifoBatch) ELSE @]
          /\ hist' = [hist EXCEPT ![s].fifo = [product_id |-> productId, batch |-> fifoBatch]]
    /\ UNCHANGED <<dbvars, run, payvars, prodvars, retvars>>

updatePackQuantity(s, index, packs) ==
    /\ FormOpen(s)
    /\ index \in 1..Len(ui[s].items)
    /\ ui[s].items[index].pack_size # NoPack
    /\ ui[s].items[index].quantity # ui[s].items[index].pack_size * packs
    /\ ui' = [ui EXCEPT ![s].items[index].quantity = ui[s].items[index].pack_size * packs]
    /\ UNCHANGED <<dbvars, run, hist, payvars, prodvars, retvars>>

addItem(s) ==
    /\ FormOpen(s)
    /\ Len(ui[s].items) < MaxItems
    /\ ui' = [ui EXCEPT ![s].items = Append(@, EmptyItem)]
    /\ UNCHANGED <<dbvars, run, hist, payvars, prodvars, retvars>>

removeItem(s, index) ==
    /\ FormOpen(s)
    /\ index \in 1..Len(ui[s].items)
    /\ Len(ui[s].items) > 1
    /\ ui' = [ui EXCEPT ![s].items =
                 [k \in 1..(Len(@) - 1) |-> IF k < index THEN @[k] ELSE @[k + 1]]]
    /\ UNCHANGED <<dbvars, run, hist, payvars, prodvars, retvars>>

\* handleEdit: loadChallanItems returns [] on error; an empty result leaves the
\* form's items as they were; formData is set without sales_order_id
handleEdit(s, c) ==
    /\ Idle(s) /\ ~ui[s].modalOpen /\ ~ui[s].showRejectModal
    /\ CanSubmit(s)
    /\ canManage(ui[s].role)
    /\ ui[s].challans[c].exists
    /\ \E ok \in BOOLEAN :
         LET loadedItems == IF ok THEN tbl_items[c] ELSE <<>>
         IN ui' = [ui EXCEPT ![s].editingChallan = c,
                             ![s].formData = [sales_order_id |-> Empty,
                                              challan_number |-> ui[s].challans[c].challan_number],
                             ![s].originalItems = loadedItems,
                             ![s].items = IF Len(loadedItems) > 0 THEN loadedItems ELSE @,
                             ![s].modalOpen = TRUE]
    /\ UNCHANGED <<dbvars, run, hist, payvars, prodvars, retvars>>

----------------------------------------------------------------------------
(* The Delivery Challan page: handleSubmit, one step per remote call *)

\* InvalidItem with the slip "&&" for "||"
InvalidItemAllMissing(item) ==
    item.product_id = Empty /\ item.batch_id = Empty /\ item.quantity <= 0

\* the filter of invalidItems (and of emptyBatches, which it covers)
InvalidItem(item) == item.product_id = Empty \/ item.batch_id = Empty \/ item.quantity <= 0

\* stockAdjustments after the loop over originalItems: one entry per original line
OriginalAdjustments(originalItems) ==
    [i \in 1..Len(originalItems) |->
        [batch_id |-> originalItems[i].batch_id, adjustment |-> originalItems[i].quantity]]

\* SubtractItem with the slip "= -quantity" for "-= quantity"
SubtractItemAssigning(adjs, newItem) ==
    LET Same(adj) == adj.batch_id = newItem.batch_id
        k == FindIndex(adjs, Same)
    IN IF k > 0
       THEN [adjs EXCEPT ![k].adjustment = -newItem.quantity]
       ELSE Append(adjs, [batch_id |-> newItem.batch_id, adjustment |-> -newItem.quantity])

\* one round of the loop over the new items: subtract from the first entry of
\* the batch, or push a new negative entry
SubtractItem(adjs, newItem) ==
    LET Same(adj) == adj.batch_id = newItem.batch_id
        k == FindIndex(adjs, Same)
    IN IF k > 0
       THEN [adjs EXCEPT ![k].adjustment = @ - newItem.quantity]
       ELSE Append(adjs, [batch_id |-> newItem.batch_id, adjustment |-> -newItem.quantity])

RECURSIVE SubtractItems(_, _)
SubtractItems(adjs, newItems) ==
    IF newItems = <<>> THEN adjs
    ELSE SubtractItems(SubtractItem(adjs, Head(newItems)), Tail(newItems))

\* the stockAdjustments list of the edit branch
StockAdjustments(originalItems, newItems) ==
    SubtractItems(OriginalAdjustments(originalItems), newItems)

\* rpc update_batch_stock: the server-side atomic stock increment
update_batch_stock(tbl, batchId, adjustment) ==
    [tbl EXCEPT ![batchId].current_stock = @ + adjustment]

\* the reservation rpc fn_deduct_stock_and_release_reservation releases for a line
Released(reservations, batchId, quantity) ==
    IF quantity < reservations[batchId] THEN quantity ELSE reservations[batchId]

\* rpc fn_deduct_stock_and_release_reservation on table batches
fn_deduct_stock(tbl, reservations, batchId, quantity) ==
    [tbl EXCEPT ![batchId].current_stock = @ - quantity,
                ![batchId].reserved_stock = @ - Released(reservations, batchId, quantity)]

\* challanData.sales_order_id: formData.sales_order_id || null
OrNull(v) == IF v = Empty THEN NULL ELSE v

\* the row written from challanData (approval_status is always 'pending_approval')
ChallanDataRow(old, formData) ==
    [old EXCEPT !.exists = TRUE, !.approval_status = "pending_approval",
                !.sales_order_id = OrNull(formData.sales_order_id),
                !.challan_number = formData.challan_number]

handleSubmit(s) ==
    /\ FormOpen(s)
    /\ UNCHANGED <<dbvars, ui, payvars, prodvars, retvars>>
    /\ IF \E i \in 1..Len(ui[s].items) : InvalidItem(ui[s].items[i])
       THEN /\ Alert(s, "invalid")
            /\ UNCHANGED hist
       ELSE \/ /\ Alert(s, "failed")          \* auth.getUser gives no user
               /\ UNCHANGED hist
            \/ /\ hist' = [hist EXCEPT ![s] =
                    [ran |-> TRUE,
                     kind |-> IF ui[s].editingChallan # NULL THEN "edit" ELSE "create",
                     target |-> ui[s].editingChallan,
                     stockAtStart |-> StockOf(tbl_batches),
                     submitted |-> ui[s].items,
                     adjFailed |-> FALSE,
                     fifo |-> [product_id |-> NULL, batch |-> NULL]]]
               /\ run' = [run EXCEPT ![s] =
                    IF ui[s].editingChallan # NULL
                    THEN [IdleRun EXCEPT !.pc = "adjust", !.idx = 1,
                             !.stockAdjustments =
                                 StockAdjustments(ui[s].originalItems, ui[s].items)]
                    ELSE [IdleRun EXCEPT !.pc = "insert_challan"]]

\* the loop over stockAdjustments moves on to its next entry
NextAdjustment(r) ==
    [r EXCEPT !.idx = @ + 1,
              !.pc = IF r.idx + 1 > Len(r.stockAdjustments) THEN "update_challan" ELSE "adjust"]

AdjustStock(s) ==
    /\ run[s].pc = "adjust"
    /\ LET adj == run[s].stockAdjustments[run[s].idx]
       IN \/ /\ adj.adjustment = 0
             /\ run' = [run EXCEPT ![s] = NextAdjustment(@)]
             /\ UNCHANGED tbl_batches
          \/ /\ adj.adjustment # 0        \* rpc update_batch_stock succeeds
             /\ tbl_batches' = update_batch_stock(tbl_batches, adj.batch_id, adj.adjustment)
             /\ run' = [run EXCEPT ![s] = NextAdjustment(@)]
          \/ /\ adj.adjustment # 0        \* rpc update_batch_stock returns an error
             /\ run' = [run EXCEPT ![s].pc = "fallback_read"]
             /\ UNCHANGED tbl_batches
    /\ UNCHANGED <<tbl_reservations, tbl_challans, tbl_items, tbl_so, tbl_so_items, ui, hist, payvars, prodvars, retvars>>

FallbackReadSubtracting(s) ==
    /\ run[s].pc = "fallback_read"
    /\ LET adj == run[s].stockAdjustments[run[s].idx]
       IN \/ /\ run' = [run EXCEPT ![s].pc = "fallback_write",
                                   ![s].newStock = tbl_batches[adj.batch_id].current_stock
                                                     - adj.adjustment]
             /\ UNCHANGED hist
          \/ /\ run' = [run EXCEPT ![s] = NextAdjustment(@)]
             /\ hist' = [hist EXCEPT ![s].adjFailed = TRUE]
    /\ UNCHANGED <<dbvars, ui, payvars, prodvars, retvars>>

FallbackRead(s) ==
    /\ run[s].pc = "fallback_read"
    /\ LET adj == run[s].stockAdjustments[run[s].idx]
       IN \/ /\ run' = [run EXCEPT ![s].pc = "fallback_write",
                                   ![s].newStock = tbl_batches[adj.batch_id].current_stock
                                                     + adj.adjustment]
             /\ UNCHANGED hist
          \/ /\ run' = [run EXCEPT ![s] = NextAdjustment(@)]      \* no batchData
             /\ hist' = [hist EXCEPT ![s].adjFailed = TRUE]
    /\ UNCHANGED <<dbvars, ui, payvars, prodvars, retvars>>

FallbackWrite(s) ==
    /\ run[s].pc = "fallback_write"
    /\ LET adj == run[s].stockAdjustments[run[s].idx]
       IN \/ /\ tbl_batches' = [tbl_batches EXCEPT ![adj.batch_id].current_stock = run[s].newStock]
             /\ UNCHANGED hist
          \/ /\ UNCHANGED tbl_batches                              \* the update fails, unchecked
             /\ hist' = [hist EXCEPT ![s].adjFailed = TRUE]
    /\ run' = [run EXCEPT ![s] = NextAdjustment(@)]
    /\ UNCHANGED <<tbl_reservations, tbl_challans, tbl_items, tbl_so, tbl_so_items, ui, payvars, prodvars, retvars>>

UpdateChallan(s) ==
    /\ run[s].pc = "update_challan"
    /\ LET c == ui[s].editingChallan
       IN \/ /\ tbl_challans[c].exists
             /\ tbl_challans' = [tbl_challans EXCEPT ![c] = ChallanDataRow(@, ui[s].formData)]
             /\ run' = [run EXCEPT ![s].pc = "delete_items", ![s].challanId = c]
          \/ /\ Alert(s, "failed")                                 \* updateError
             /\ UNCHANGED tbl_challans
    /\ UNCHANGED <<tbl_batches, tbl_reservations, tbl_items, tbl_so, tbl_so_items, ui, hist, payvars, prodvars, retvars>>

DeleteItems(s) ==
    /\ run[s].pc = "delete_items"
    /\ \/ /\ tbl_items' = [tbl_items EXCEPT ![run[s].challanId] = <<>>]
          /\ run' = [run EXCEPT ![s].pc = "insert_items"]
       \/ /\ Alert(s, "failed")                                    \* deleteItemsError
          /\ UNCHANGED tbl_items
    /\ UNCHANGED <<tbl_batches, tbl_reservations, tbl_challans, tbl_so, tbl_so_items, ui, hist, payvars, prodvars, retvars>>

FreeChallanIds == {c \in ChallanIds : ~tbl_challans[c].exists}

InsertChallan(s) ==
    /\ run[s].pc = "insert_challan"
    /\ \/ /\ FreeChallanIds # {}
          /\ LET c == CHOOSE x \in FreeChallanIds : TRUE
             IN /\ tbl_challans' = [tbl_challans EXCEPT ![c] = ChallanDataRow(NoChallan, ui[s].formData)]
                /\ run' = [run EXCEPT ![s].challanId = c, ![s].idx = 1,
                                      ![s].pc = IF ui[s].formData.sales_order_id # Empty
                                                THEN "deduct" ELSE "insert_items"]
       \/ /\ Alert(s, "failed")                                    \* challanError
          /\ UNCHANGED tbl_challans
    /\ UNCHANGED <<tbl_batches, tbl_reservations, tbl_items, tbl_so, tbl_so_items, ui, hist, payvars, prodvars, retvars>>

\* one round of the loop calling fn_deduct_stock_and_release_reservation
DeductStock(s) ==
    /\ run[s].pc = "deduct"
    /\ LET item == ui[s].items[run[s].idx]
       IN \/ /\ tbl_batches' = fn_deduct_stock(tbl_batches, tbl_reservations,
                                                item.batch_id, item.quantity)
             /\ tbl_reservations' = [tbl_reservations EXCEPT ![item.batch_id] =
                                        @ - Released(tbl_reservations, item.batch_id, item.quantity)]
          \/ UNCHANGED <<tbl_batches, tbl_reservations>>           \* releaseError, logged only
    /\ run' = [run EXCEPT ![s].idx = @ + 1,
                          ![s].pc = IF run[s].idx + 1 > Len(ui[s].items)
                                    THEN "so_bookkeeping" ELSE "deduct"]
    /\ UNCHANGED <<tbl_challans, tbl_items, tbl_so, tbl_so_items, ui, hist, payvars, prodvars, retvars>>

\* the challan line the bookkeeping credits to an order line: items.find by product
DcQuantity(items, productId) ==
    LET Same(item) == item.product_id = productId
        k == FindIndex(items, Same)
    IN IF k > 0 THEN items[k].quantity ELSE 0

newDeliveredQty(items, soItem) == soItem.delivered_quantity + DcQuantity(items, soItem.product_id)

allDelivered(items, soItems) ==
    \A i \in 1..Len(soItems) : ~(newDeliveredQty(items, soItems[i]) < soItems[i].quantity)

\* delivered_quantity and order status; every update's error is ignored
SoBookkeeping(s) ==
    /\ run[s].pc = "so_bookkeeping"
    /\ \/ UNCHANGED <<tbl_so, tbl_so_items>>                       \* soItems is null
       \/ \E written \in SUBSET (1..Len(tbl_so_items)), statusWritten \in BOOLEAN :
            /\ tbl_so_items' = [i \in 1..Len(tbl_so_items) |->
                   IF i \in written
                   THEN [tbl_so_items[i] EXCEPT !.delivered_quantity =
                            newDeliveredQty(ui[s].items, tbl_so_items[i])]
                   ELSE tbl_so_items[i]]
            /\ tbl_so' = IF statusWritten
                         THEN [status |-> IF allDelivered(ui[s].items, tbl_so_items)
                                          THEN "delivered" ELSE "partially_delivered",
                               is_archived |-> allDelivered(ui[s].items, tbl_so_items)]
                         ELSE tbl_so
    /\ run' = [run EXCEPT ![s].pc = "insert_items"]
    /\ UNCHANGED <<tbl_batches, tbl_reservations, tbl_challans, tbl_items, ui, hist, payvars, prodvars, retvars>>

\* loadChallans and loadBatches, started by the handler that changed the tables
Reloaded(u, challansNew, batchesNew) ==
    [u EXCEPT !.challans = challansNew, !.batches = batchesNew]

InsertItems(s) ==
    /\ run[s].pc = "insert_items"
    /\ \/ /\ tbl_challans[run[s].challanId].exists
          /\ tbl_items' = [tbl_items EXCEPT ![run[s].challanId] = ui[s].items]
          /\ \E challansNew \in {tbl_challans}, batchesNew \in LoadedBatches(tbl_batches) :
               ui' = [ui EXCEPT ![s] =
                         Reloaded([resetForm(ui[s]) EXCEPT !.modalOpen = FALSE],
                                  challansNew, batchesNew)]
          /\ Alert(s, IF ui[s].editingChallan # NULL THEN "updated" ELSE "created")
       \/ /\ Alert(s, "failed")                                    \* itemsError
          /\ UNCHANGED <<tbl_items, ui>>
    /\ UNCHANGED <<tbl_batches, tbl_reservations, tbl_challans, tbl_so, tbl_so_items, hist, payvars, prodvars, retvars>>

----------------------------------------------------------------------------
(* The Delivery Challan page: delete and the approval workflow *)

RevertedOrderAsDelivered(so) == [so EXCEPT !.status = "delivered", !.is_archived = FALSE]

\* the sales_orders row handleDelete writes back
RevertedOrder(so) == [so EXCEPT !.status = "pending_delivery", !.is_archived = FALSE]

\* handleDelete: read the challan's order link, delete the challan (its items go
\* with it), revert the linked order, reload
handleDelete(s, id) ==
    /\ Idle(s) /\ ~ui[s].modalOpen /\ ~ui[s].showRejectModal
    /\ canManage(ui[s].role)
    /\ ui[s].challans[id].exists
    /\ \/ /\ Alert(s, "delete_failed")                             \* the delete returns an error
          /\ UNCHANGED <<tbl_challans, tbl_items, tbl_so, ui>>
       \/ \E dcRead \in BOOLEAN, soWritten \in BOOLEAN :
            LET dcData == IF dcRead /\ tbl_challans[id].exists THEN tbl_challans[id] ELSE NoChallan
                challansNew == [tbl_challans EXCEPT ![id] = NoChallan]
            IN /\ tbl_challans' = challansNew
               /\ tbl_items' = [tbl_items EXCEPT ![id] = <<>>]
               /\ tbl_so' = IF dcData.sales_order_id # NULL /\ soWritten
                            THEN RevertedOrder(tbl_so) ELSE tbl_so
               /\ \E loaded \in {challansNew} :
                     ui' = [ui EXCEPT ![s].challans = loaded]
               /\ Alert(s, "deleted")
    /\ UNCHANGED <<tbl_batches, tbl_reservations, tbl_so_items, hist, payvars, prodvars, retvars>>

\* the row handleApproveChallan writes
ApprovedRow(row) == [row EXCEPT !.approval_status = "approved"]

handleApproveChallan(s, challanId) ==
    /\ Idle(s) /\ ~ui[s].modalOpen /\ ~ui[s].showRejectModal
    /\ ui[s].challans[challanId].exists
    /\ canApprove(ui[s].role, ui[s].challans[challanId])
    /\ \/ /\ Alert(s, "approve_failed")
          /\ UNCHANGED <<tbl_challans, ui>>
       \/ LET challansNew == IF tbl_challans[challanId].exists
                             THEN [tbl_challans EXCEPT ![challanId] = ApprovedRow(@)]
                             ELSE tbl_challans
          IN /\ tbl_challans' = challansNew
             /\ \E loaded \in {challansNew} :
                   ui' = [ui EXCEPT ![s].challans = loaded]
             /\ Alert(s, "approved")
    /\ UNCHANGED <<tbl_batches, tbl_reservations, tbl_items, tbl_so, tbl_so_items, hist, payvars, prodvars, retvars>>

\* the reject button of the approval_status column
OpenReject(s, challanId) ==
    /\ Idle(s) /\ ~ui[s].modalOpen /\ ~ui[s].showRejectModal
    /\ ui[s].challans[challanId].exists
    /\ canApprove(ui[s].role, ui[s].challans[challanId])
    /\ ui' = [ui EXCEPT ![s].challanToReject = challanId, ![s].showRejectModal = TRUE]
    /\ UNCHANGED <<dbvars, run, hist, payvars, prodvars, retvars>>

Reasons == {Empty, " ", "damaged"}

TrimNothing(reason) == reason

\* String.prototype.trim on the reasons of the model
Trim(reason) == IF reason = " " THEN Empty ELSE reason

SetRejectionReason(s, reason) ==
    /\ Idle(s) /\ ui[s].showRejectModal
    /\ reason # ui[s].rejectionReason
    /\ ui' = [ui EXCEPT ![s].rejectionReason = reason]
    /\ UNCHANGED <<dbvars, run, hist, payvars, prodvars, retvars>>

CloseReject(s) ==
    /\ Idle(s) /\ ui[s].showRejectModal
    /\ ui' = [ui EXCEPT ![s].showRejectModal = FALSE, ![s].rejectionReason = Empty,
                        ![s].challanToReject = NULL]
    /\ UNCHANGED <<dbvars, run, hist, payvars, prodvars, retvars>>

\* the row handleRejectChallan writes
RejectedRow(row, reason) ==
    [row EXCEPT !.approval_status = "rejected", !.rejection_reason = reason]

handleRejectChallan(s) ==
    /\ Idle(s) /\ ui[s].showRejectModal
    /\ IF ui[s].challanToReject = NULL \/ Trim(ui[s].rejectionReason) = Empty
       THEN /\ Alert(s, "Please enter a rejection reason")
            /\ UNCHANGED <<tbl_challans, ui>>
       ELSE \/ /\ Alert(s, "reject_failed")
               /\ UNCHANGED <<tbl_challans, ui>>
            \/ LET c == ui[s].challanToReject
                   challansNew == IF tbl_challans[c].exists
                                  THEN [tbl_challans EXCEPT ![c] = RejectedRow(@, ui[s].rejectionReason)]
                                  ELSE tbl_challans
               IN /\ tbl_challans' = challansNew
                  /\ \E loaded \in {challansNew} :
                        ui' = [ui EXCEPT ![s].challans = loaded,
                                         ![s].showRejectModal = FALSE,
                                         ![s].rejectionReason = Empty,
                                         ![s].challanToReject = NULL]
                  /\ Alert(s, "rejected")
    /\ UNCHANGED <<tbl_batches, tbl_reservations, tbl_items, tbl_so, tbl_so_items, hist, payvars, prodvars, retvars>>

----------------------------------------------------------------------------
(* One user on the Delivery Challan page *)

ChallanNext(s) ==
    \/ DismissAlert(s)
    \/ OpenCreate(s)
    \/ CloseModal(s)
    \/ handleCustomerChange(s)
    \/ \E soId \in {Empty, SoId} : handleSalesOrderChange(s, soId)
    \/ \E i \in 1..MaxItems, p \in ProductIds : SelectProduct(s, i, p)
    \/ \E i \in 1..MaxItems, b \in BatchIds : handleBatchChange(s, i, b)
    \/ \E i \in 1..MaxItems : UseFIFO(s, i)
    \/ \E i \in 1..MaxItems, packs \in 1..MaxQty : updatePackQuantity(s, i, packs)
    \/ addItem(s)
    \/ \E i \in 1..MaxItems : removeItem(s, i)
    \/ \E c \in ChallanIds : handleEdit(s, c)
    \/ handleSubmit(s)
    \/ AdjustStock(s)
    \/ FallbackRead(s)
    \/ FallbackWrite(s)
    \/ UpdateChallan(s)
    \/ DeleteItems(s)
    \/ InsertChallan(s)
    \/ DeductStock(s)
    \/ SoBookkeeping(s)
    \/ InsertItems(s)
    \/ \E c \in ChallanIds : handleDelete(s, c)
    \/ \E c \in ChallanIds : handleApproveChallan(s, c)
    \/ \E c \in ChallanIds : OpenReject(s, c)
    \/ \E r \in Reasons : SetRejectionReason(s, r)
    \/ CloseReject(s)
    \/ handleRejectChallan(s)

Next == ChallanNext("s1")

Spec == Init /\ [][Next]_vars

----------------------------------------------------------------------------
(* Properties of the challan edit *)

Available(b) == tbl_batches[b].current_stock - tbl_batches[b].reserved_stock

NetAdjustment(s, b) == SumQty(ui[s].originalItems, b) - SumQty(ui[s].items, b)

InAdjustLoop(s) == run[s].pc \in {"adjust", "fallback_read", "fallback_write", "update_challan"}

\* C2: on a challan edit the stockAdjustments entries of each batch add up to
\* (sum of the original line quantities of the batch) - (sum of the new line
\* quantities of the batch), and once the loop has written every entry that is the
\* change made to the batch's current_stock; several original or new lines may
\* reference the same batch.
C2_EditNetAdjustment ==
    \A s \in Sessions : \A b \in BatchIds :
        /\ InAdjustLoop(s) => SumAdj(run[s].stockAdjustments, b) = NetAdjustment(s, b)
        /\ (run[s].pc = "update_challan" /\ ~hist[s].adjFailed)
              => tbl_batches[b].current_stock - hist[s].stockAtStart[b] = NetAdjustment(s, b)

\* C2 witness: an edit of two original lines of batch A into two other lines of
\* batch A has gone through its adjustment loop, net change -1 on batch A
C2_Witness ==
    /\ run["s1"].pc = "update_challan" /\ ~hist["s1"].adjFailed
    /\ Len(ui["s1"].originalItems) = 2 /\ Len(ui["s1"].items) = 2
    /\ SumQty(ui["s1"].originalItems, "A") = 2
    /\ SumQty(ui["s1"].items, "A") = 3
    /\ tbl_batches["A"].current_stock = hist["s1"].stockAtStart["A"] - 1

\* C3: when a stock adjustment write of an edit has failed, the save goes no
\* further: the challan is not updated, its items are not replaced, the run ends
\* in a failure alert and leaves no adjustment applied.
C3_AbortOnFailedAdjustment ==
    \A s \in Sessions :
        hist[s].adjFailed =>
            /\ run[s].pc \notin {"delete_items", "insert_items"}
            /\ run[s].pc = "alert" =>
                  /\ run[s].alert = "failed"
                  /\ StockOf(tbl_batches) = hist[s].stockAtStart

\* C4: when handleSubmit has finished an edit, with success or with the failure
\* alert (which names only the failed call), stock adjustments have been applied
\* only if the stored line items are the new line items.
C4_EditIsOneTransaction ==
    \A s \in Sessions :
        ( /\ run[s].pc = "alert" /\ run[s].alert \in {"failed", "updated"}
          /\ hist[s].kind = "edit"
          /\ StockOf(tbl_batches) # hist[s].stockAtStart )
        => tbl_items[hist[s].target] = hist[s].submitted

\* C5: a challan that is approved or rejected keeps that approval_status in
\* every step of the page.
C5_ApprovalIsTerminal ==
    [][ \A c \in ChallanIds :
          ( /\ tbl_challans[c].exists /\ tbl_challans'[c].exists
            /\ tbl_challans[c].approval_status \in {"approved", "rejected"} )
          => tbl_challans'[c].approval_status = tbl_challans[c].approval_status ]_vars

Quiescent == \A s \in Sessions : run[s].pc \in {"idle", "alert"}

\* C8: whenever no handler is running, every batch has current_stock >= 0 and
\* current_stock - reserved_stock >= 0.
C8_StockNeverNegative ==
    Quiescent => \A b \in BatchIds : tbl_batches[b].current_stock >= 0 /\ Available(b) >= 0

JustValidated(s) ==
    \/ run[s].pc = "insert_challan"
    \/ run[s].pc = "adjust" /\ run[s].idx = 1

\* C9: a save (create or edit) that has passed handleSubmit's validation has no
\* line whose quantity exceeds the available stock (current_stock -
\* reserved_stock) its batch has at that time.
C9_QuantityWithinAvailable ==
    \A s \in Sessions :
        JustValidated(s) =>
            \A i \in 1..Len(ui[s].items) :
                ui[s].items[i].quantity <= Available(ui[s].items[i].batch_id)

\* C10: after a successful create every batch's current_stock has gone down by
\* the quantities of the challan's lines for it, with or without a sales order.
C10_CreateDecrementsStock ==
    \A s \in Sessions :
        (run[s].pc = "alert" /\ run[s].alert = "created") =>
            \A b \in BatchIds :
                tbl_batches[b].current_stock
                    = hist[s].stockAtStart[b] - SumQty(hist[s].submitted, b)

----------------------------------------------------------------------------
(* FIFO batch selection over any batch table *)

MaxStock == 1       \* largest current_stock of a batch in the table drawn
MaxDate  == 3       \* latest import date drawn (Today is day 2)

FifoProducts == {"P", "Q"}

BatchRows ==
    { r \in [product_id : FifoProducts, current_stock : 0..MaxStock,
             reserved_stock : 0..MaxStock, expiry_date : {NoDate} \cup (Today - 1)..(Today + 1),
             import_date : (MaxDate - 1)..MaxDate] :
        r.reserved_stock <= r.current_stock }

InitFIFO ==
    /\ tbl_batches \in [BatchIds -> BatchRows]
    /\ InitOrders
    /\ InitUi({"admin"})
    /\ InitPay
    /\ InitProducts
    /\ InitReturns

\* loadBatches of the mounted page: on error the state keeps the old rows
loadBatches(s) ==
    /\ Idle(s)
    /\ \E loaded \in LoadedBatches(tbl_batches) :
         /\ loaded # ui[s].batches
         /\ ui' = [ui EXCEPT ![s].batches = loaded]
    /\ UNCHANGED <<dbvars, run, hist, payvars, prodvars, retvars>>

NextFIFO ==
    \/ loadBatches("s1")
    \/ OpenCreate("s1")
    \/ CloseModal("s1")
    \/ \E p \in FifoProducts : SelectProduct("s1", 1, p)
    \/ \E b \in BatchIds : handleBatchChange("s1", 1, b)
    \/ UseFIFO("s1", 1)

SpecFIFO == InitFIFO /\ [][NextFIFO]_vars

\* the batches the FIFO contract may return for a product: not expired as of
\* today, with available stock
Eligible(productId) ==
    { b \in BatchIds :
        /\ tbl_batches[b].product_id = productId
        /\ (tbl_batches[b].expiry_date = NoDate \/ tbl_batches[b].expiry_date >= Today)
        /\ tbl_batches[b].current_stock - tbl_batches[b].reserved_stock > 0 }

\* C1: for the loaded snapshot and any product, getFIFOBatch returns a batch of
\* minimum import_date among the product's batches that have expiry_date null
\* or >= today and available stock > 0, and returns none exactly when there is
\* no such batch.
C1_FIFOOldestAvailable ==
    \A s \in Sessions :
        hist[s].fifo.product_id # NULL =>
            LET p == hist[s].fifo.product_id
                fifoBatch == hist[s].fifo.batch
            IN /\ (fifoBatch = NULL) <=> (Eligible(p) = {})
               /\ fifoBatch # NULL =>
                    /\ fifoBatch \in Eligible(p)
                    /\ \A b \in Eligible(p) :
                          tbl_batches[fifoBatch].import_date <= tbl_batches[b].import_date

----------------------------------------------------------------------------
(* Receivables page: recording a payment and allocating it to invoices *)

chvars == <<tbl_batches, tbl_reservations, tbl_challans, tbl_items, tbl_so, tbl_so_items,
            ui, run, hist>>

PayIdle(s) == rui[s].pc = "idle"

PayAlert(s, msg) == rui' = [rui EXCEPT ![s].pc = "alert", ![s].alert = msg]

DismissPayAlert(s) ==
    /\ rui[s].pc = "alert"
    /\ rui' = [rui EXCEPT ![s].pc = "idle", ![s].alert = NULL, ![s].paymentId = 0]
    /\ UNCHANGED <<chvars, prodvars, retvars, tbl_invoices, tbl_payments, tbl_allocations>>

\* loadData: run on a change of view and, not awaited, after a recorded payment;
\* a failed query is only logged, a failed rpc of a row gives paid_amount 0
Receivables_loadData(s) ==
    /\ PayIdle(s)
    /\ \/ \E rpcFailed \in SUBSET InvoiceIds :
            rui' = [rui EXCEPT ![s].invoices =
                        InvoicesWithPaid(tbl_invoices, tbl_allocations, rpcFailed)]
       \/ UNCHANGED rui
    /\ UNCHANGED <<chvars, prodvars, retvars, tbl_invoices, tbl_payments, tbl_allocations>>

\* handleRecordPayment of a row of the invoices table of the page
handleRecordPayment(s, invoiceId) ==
    /\ PayIdle(s)
    /\ ~rui[s].modalOpen
    /\ rui[s].invoices[invoiceId].listed
    /\ LET remainingAmount == tbl_invoices[invoiceId].total_amount
                                - rui[s].invoices[invoiceId].paid_amount
           opened == [rui[s] EXCEPT !.selectedInvoice = invoiceId,
                                    !.amount = remainingAmount,
                                    !.modalOpen = TRUE]
       IN \/ \E rpcFailed \in SUBSET InvoiceIds :
               rui' = [rui EXCEPT ![s] =
                         [opened EXCEPT
                            !.customerInvoices =
                                InvoicesWithPaid(tbl_invoices, tbl_allocations, rpcFailed),
                            !.selectedAllocations =
                                [i \in InvoiceIds |->
                                    IF i = invoiceId
                                    THEN [selected |-> TRUE, amount |-> remainingAmount]
                                    ELSE NoAllocation]]]
          \/ rui' = [rui EXCEPT ![s] = opened]
    /\ UNCHANGED <<chvars, prodvars, retvars, tbl_invoices, tbl_payments, tbl_allocations>>

Receivables_resetForm(r) == [r EXCEPT !.amount = 0]

Closed(r) ==
    Receivables_resetForm(
        [r EXCEPT !.modalOpen = FALSE,
                  !.selectedInvoice = NULL,
                  !.customerInvoices = [i \in InvoiceIds |-> NoInvoiceRow],
                  !.selectedAllocations = [i \in InvoiceIds |-> NoAllocation]])

\* Cancel button and the modal's onClose
CancelPayment(s) ==
    /\ PayIdle(s)
    /\ rui[s].modalOpen
    /\ rui' = [rui EXCEPT ![s] = Closed(rui[s])]
    /\ UNCHANGED <<chvars, prodvars, retvars, tbl_invoices, tbl_payments, tbl_allocations>>

\* the Amount field of the form; an emptied field is amount 0
SetAmount(s, value) ==
    /\ PayIdle(s)
    /\ rui[s].modalOpen
    /\ rui' = [rui EXCEPT ![s].amount = value]
    /\ UNCHANGED <<chvars, prodvars, retvars, tbl_invoices, tbl_payments, tbl_allocations>>

Balance(r, i) == tbl_invoices[i].total_amount - r.customerInvoices[i].paid_amount

TotalAllocated(r) ==
    SumOver([i \in InvoiceIds |-> r.selectedAllocations[i].amount], InvoiceIds)

\* the checkbox of an invoice of the allocation section
ToggleAllocation(s, i) ==
    /\ PayIdle(s)
    /\ rui[s].modalOpen
    /\ rui[s].customerInvoices[i].listed
    /\ rui' = [rui EXCEPT ![s].selectedAllocations[i] =
                 IF ~rui[s].selectedAllocations[i].selected
                 THEN [selected |-> TRUE,
                       amount |-> Min(Balance(rui[s], i),
                                      rui[s].amount - TotalAllocated(rui[s]))]
                 ELSE NoAllocation]
    /\ UNCHANGED <<chvars, prodvars, retvars, tbl_invoices, tbl_payments, tbl_allocations>>

\* the amount input of a selected invoice; an emptied field is value 0
SetAllocation(s, i, value) ==
    /\ PayIdle(s)
    /\ rui[s].modalOpen
    /\ rui[s].customerInvoices[i].listed
    /\ rui[s].selectedAllocations[i].selected
    /\ IF value > Balance(rui[s], i)
       THEN PayAlert(s, "over_balance")
       ELSE rui' = [rui EXCEPT ![s].selectedAllocations[i].amount = value]
    /\ UNCHANGED <<chvars, prodvars, retvars, tbl_invoices, tbl_payments, tbl_allocations>>

\* the browser's check of the form's fields before it raises onSubmit: Amount
\* is required with min 0, each rendered allocation input has min 0 and max
\* balance and may be empty
FieldsValid(r) ==
    /\ r.amount > 0
    /\ \A i \in InvoiceIds :
          (r.customerInvoices[i].listed /\ r.selectedAllocations[i].selected
              /\ r.selectedAllocations[i].amount # 0)
          => /\ r.selectedAllocations[i].amount >= 0
             /\ r.selectedAllocations[i].amount <= Balance(r, i)

\* the Record Payment button is disabled while nothing is allocated
SubmitEnabled(r) == TotalAllocated(r) # 0

Receivables_handleSubmitLenient(s) ==
    /\ PayIdle(s)
    /\ rui[s].modalOpen
    /\ SubmitEnabled(rui[s])
    /\ FieldsValid(rui[s])
    /\ rui[s].selectedInvoice # NULL
    /\ Len(tbl_payments) < MaxPayments
    /\ IF TotalAllocated(rui[s]) > rui[s].amount + MaxAmount THEN PayAlert(s, "exceeds_payment")
       ELSE IF TotalAllocated(rui[s]) = 0 THEN PayAlert(s, "nothing_allocated")
       ELSE \/ rui' = [rui EXCEPT ![s].pc = "insert_payment"]
            \/ PayAlert(s, "failed")
    /\ UNCHANGED <<chvars, prodvars, retvars, tbl_invoices, tbl_payments, tbl_allocations>>

\* handleSubmit of the payment form, up to its first remote write
Receivables_handleSubmit(s) ==
    /\ PayIdle(s)
    /\ rui[s].modalOpen
    /\ SubmitEnabled(rui[s])
    /\ FieldsValid(rui[s])
    /\ rui[s].selectedInvoice # NULL
    /\ Len(tbl_payments) < MaxPayments
    /\ IF TotalAllocated(rui[s]) > rui[s].amount THEN PayAlert(s, "exceeds_payment")
       ELSE IF TotalAllocated(rui[s]) = 0 THEN PayAlert(s, "nothing_allocated")
       ELSE \/ rui' = [rui EXCEPT ![s].pc = "insert_payment"]
            \/ PayAlert(s, "failed")
    /\ UNCHANGED <<chvars, prodvars, retvars, tbl_invoices, tbl_payments, tbl_allocations>>

InsertPaymentAllocatedOnly(s) ==
    /\ rui[s].pc = "insert_payment"
    /\ \/ /\ tbl_payments' = Append(tbl_payments,
                                [customer_id |-> tbl_invoices[rui[s].selectedInvoice].customer_id,
                                 amount |-> TotalAllocated(rui[s])])
          /\ rui' = [rui EXCEPT ![s].pc = "insert_allocations",
                                ![s].paymentId = Len(tbl_payments) + 1]
       \/ /\ PayAlert(s, "failed")
          /\ UNCHANGED tbl_payments
    /\ UNCHANGED <<chvars, prodvars, retvars, tbl_invoices, tbl_allocations>>

\* 1. insert of the customer_payments row
InsertPayment(s) ==
    /\ rui[s].pc = "insert_payment"
    /\ \/ /\ tbl_payments' = Append(tbl_payments,
                                [customer_id |-> tbl_invoices[rui[s].selectedInvoice].customer_id,
                                 amount |-> rui[s].amount])
          /\ rui' = [rui EXCEPT ![s].pc = "insert_allocations",
                                ![s].paymentId = Len(tbl_payments) + 1]
       \/ /\ PayAlert(s, "failed")
          /\ UNCHANGED tbl_payments
    /\ UNCHANGED <<chvars, prodvars, retvars, tbl_invoices, tbl_allocations>>

RECURSIVE AllocationRowsUnfiltered(_, _, _)
AllocationRowsUnfiltered(selectedAllocations, paymentId, S) ==
    IF S = {} THEN <<>>
    ELSE LET i == CHOOSE x \in S : TRUE
             rest == AllocationRowsUnfiltered(selectedAllocations, paymentId, S \ {i})
         IN IF selectedAllocations[i].selected
            THEN <<[invoice_id |-> i, payment_id |-> paymentId,
                    allocated_amount |-> selectedAllocations[i].amount]>> \o rest
            ELSE rest

RECURSIVE AllocationRows(_, _, _)
AllocationRows(selectedAllocations, paymentId, S) ==
    IF S = {} THEN <<>>
    ELSE LET i == CHOOSE x \in S : TRUE
             rest == AllocationRows(selectedAllocations, paymentId, S \ {i})
         IN IF selectedAllocations[i].selected /\ selectedAllocations[i].amount > 0
            THEN <<[invoice_id |-> i, payment_id |-> paymentId,
                    allocated_amount |-> selectedAllocations[i].amount]>> \o rest
            ELSE rest

\* the backend brings payment_status up to date when allocation rows are added
StatusKept(invoices, allocs) ==
    [i \in InvoiceIds |->
        [invoices[i] EXCEPT !.payment_status = payment_status(invoices, allocs, i)]]

\* 2. insert of the allocation rows, then the form is closed and reset
InsertAllocations(s) ==
    /\ rui[s].pc = "insert_allocations"
    /\ \/ /\ tbl_allocations' = tbl_allocations \o
                AllocationRows(rui[s].selectedAllocations, rui[s].paymentId, InvoiceIds)
          /\ tbl_invoices' = StatusKept(tbl_invoices, tbl_allocations')
          /\ rui' = [rui EXCEPT ![s] = [Closed(rui[s]) EXCEPT !.pc = "alert",
                                                               !.alert = "recorded"]]
       \/ /\ PayAlert(s, "failed")
          /\ UNCHANGED <<tbl_allocations, tbl_invoices>>
    /\ UNCHANGED <<chvars, prodvars, retvars, tbl_payments>>

PayNext(s) ==
    \/ DismissPayAlert(s)
    \/ Receivables_loadData(s)
    \/ \E i \in InvoiceIds : handleRecordPayment(s, i)
    \/ CancelPayment(s)
    \/ \E value \in 0..MaxAmount : SetAmount(s, value)
    \/ \E i \in InvoiceIds : ToggleAllocation(s, i)
    \/ \E i \in InvoiceIds, value \in 0..MaxAmount : SetAllocation(s, i, value)
    \/ Receivables_handleSubmit(s)
    \/ InsertPayment(s)
    \/ InsertAllocations(s)

\* the challan tables hold one challan of one line, not linked to the order
InitReceivables ==
    /\ InitDb
    /\ tbl_challans["c1"].sales_order_id = NULL
    /\ Len(tbl_items["c1"]) = 1
    /\ InitUi(Roles)
    /\ ui["s1"].role = "admin" /\ ui["s2"].role = "sales"
    /\ InitPay
    /\ InitProducts
    /\ InitReturns

\* one session on the Receivables page
NextPay1 == PayNext("s1")

SpecPay1 == InitReceivables /\ [][NextPay1]_vars

\* a session that records payments as the form prefills them
PrefilledPayNext(s) ==
    \/ DismissPayAlert(s)
    \/ Receivables_loadData(s)
    \/ \E i \in InvoiceIds : handleRecordPayment(s, i)
    \/ CancelPayment(s)
    \/ Receivables_handleSubmit(s)
    \/ InsertPayment(s)
    \/ InsertAllocations(s)

\* two sessions on the Receivables page
NextPay == \E s \in Sessions : PrefilledPayNext(s)

SpecPay == InitReceivables /\ [][NextPay]_vars

----------------------------------------------------------------------------
(* Properties of the payment allocation *)

\* what the invoice had been paid when the payment paymentId was recorded
PaidBefore(invoiceId, paymentId) ==
    SumOver([k \in 1..Len(tbl_allocations) |->
                IF /\ tbl_allocations[k].invoice_id = invoiceId
                   /\ tbl_allocations[k].payment_id < paymentId
                THEN tbl_allocations[k].allocated_amount ELSE 0],
            1..Len(tbl_allocations))

AllocatedOf(paymentId) ==
    SumOver([k \in 1..Len(tbl_allocations) |->
                IF tbl_allocations[k].payment_id = paymentId
                THEN tbl_allocations[k].allocated_amount ELSE 0],
            1..Len(tbl_allocations))

\* C6: when a submission has been accepted and persisted, the allocation rows of
\* its payment add up to at most the payment's amount, and each row's
\* allocated_amount is > 0 and at most the remaining balance (total_amount -
\* paid amount) its invoice had.
C6_AllocationWithinBounds ==
    \A s \in Sessions :
        (rui[s].pc = "alert" /\ rui[s].alert = "recorded") =>
            LET p == rui[s].paymentId
            IN /\ AllocatedOf(p) <= tbl_payments[p].amount
               /\ \A k \in 1..Len(tbl_allocations) :
                     tbl_allocations[k].payment_id = p =>
                        /\ tbl_allocations[k].allocated_amount > 0
                        /\ tbl_allocations[k].allocated_amount
                              <= tbl_invoices[tbl_allocations[k].invoice_id].total_amount
                                   - PaidBefore(tbl_allocations[k].invoice_id, p)

\* C7: the allocation rows of an invoice never add up to more than the
\* invoice's total_amount, whatever payments the sessions record.
C7_InvoiceNeverOverAllocated ==
    \A i \in InvoiceIds :
        get_invoice_paid_amount(tbl_allocations, i) <= tbl_invoices[i].total_amount

----------------------------------------------------------------------------
(* Two sessions editing challans at the same time *)

OneLineOfA == <<[product_id |-> "P", batch_id |-> "A", quantity |-> 1, pack_size |-> 1]>>

\* challans c1 and c2 are on file, one line of batch A each, entered by hand
InitRace ==
    /\ tbl_batches = InitBatches
    /\ tbl_reservations = [b \in BatchIds |-> IF b = "A" THEN 1 ELSE 0]
    /\ tbl_challans = [c \in ChallanIds |->
            [exists |-> TRUE, approval_status |-> "pending_approval",
             sales_order_id |-> NULL, rejection_reason |-> NULL,
             challan_number |-> LastYearNumber(IF c = "c1" THEN 1 ELSE 2)]]
    /\ tbl_so = [status |-> "stock_reserved", is_archived |-> FALSE]
    /\ tbl_so_items = << [product_id |-> "P", quantity |-> 2, delivered_quantity |-> 0] >>
    /\ tbl_items = [c \in ChallanIds |-> OneLineOfA]
    /\ InitUi(Roles)
    /\ ui["s1"].role = "admin" /\ ui["s2"].role = "sales"
    /\ InitPay
    /\ InitProducts
    /\ InitReturns

\* a session that opens a challan, changes its line and saves it
EditNext(s) ==
    \/ DismissAlert(s)
    \/ \E c \in ChallanIds : handleEdit(s, c)
    \/ \E b \in BatchIds : handleBatchChange(s, 1, b)
    \/ \E packs \in 1..MaxQty : updatePackQuantity(s, 1, packs)
    \/ handleSubmit(s)
    \/ AdjustStock(s)
    \/ FallbackRead(s)
    \/ FallbackWrite(s)
    \/ UpdateChallan(s)
    \/ DeleteItems(s)
    \/ InsertItems(s)

NextRace == \E s \in Sessions : EditNext(s)

SpecRace == InitRace /\ [][NextRace]_vars

\* both sessions have run their adjustment loop to its end with every write
\* taking effect, and neither has gone on yet
BothAdjusted ==
    \A s \in Sessions : run[s].pc = "update_challan" /\ ~hist[s].adjFailed

StockChange(b) == tbl_batches[b].current_stock - InitBatches[b].current_stock

\* C11: when two sessions' adjustment loops have overlapped, the change of a
\* batch's current_stock is the sum of the two sessions' adjustments or, last
\* write wins, the adjustment of one session alone with the other's lost; the
\* code has nothing that excludes the second outcome.
C11_LastWriteWins ==
    BothAdjusted =>
        \A b \in BatchIds :
            StockChange(b) \in { NetAdjustment("s1", b) + NetAdjustment("s2", b),
                                 NetAdjustment("s1", b),
                                 NetAdjustment("s2", b) }

\* C11 witness: both sessions adjusted batch A by -1, every write took effect,
\* and batch A is down by 1 only: one adjustment is lost
C11_Witness ==
    /\ BothAdjusted
    /\ NetAdjustment("s1", "A") = -1
    /\ NetAdjustment("s2", "A") = -1
    /\ StockChange("A") = -1

----------------------------------------------------------------------------
(* Further properties of the challan page *)

\* the adjustment loop of an edit has ended and the save is still under way
AfterAdjustLoop(s) ==
    /\ hist[s].kind = "edit"
    /\ run[s].pc \in {"update_challan", "delete_items", "insert_items"}

\* C12: an edit saved with line items identical to the original line items
\* leaves every batch's current_stock at its value before the save, also when
\* several lines reference the same batch.
C12_NoOpEditKeepsStock ==
    \A s \in Sessions :
        (AfterAdjustLoop(s) /\ ui[s].items = ui[s].originalItems)
            => StockOf(tbl_batches) = hist[s].stockAtStart

\* a create from a sales order has just done its order bookkeeping
AfterBookkeeping(s) ==
    /\ hist[s].kind = "create"
    /\ ui[s].formData.sales_order_id # Empty
    /\ run[s].pc = "insert_items"

EveryLineDelivered ==
    \A i \in 1..Len(tbl_so_items) :
        tbl_so_items[i].delivered_quantity >= tbl_so_items[i].quantity

\* C13: after the order bookkeeping of a create from a sales order, the order's
\* status is 'delivered' if every order line's delivered_quantity has reached
\* its quantity and 'partially_delivered' otherwise.
C13_OrderStatusFollowsDelivered ==
    \A s \in Sessions :
        AfterBookkeeping(s) =>
            tbl_so.status = IF EveryLineDelivered THEN "delivered" ELSE "partially_delivered"

\* the step of session s is a whole handleDelete
DeleteStep(s) ==
    /\ run[s].pc = "idle"
    /\ run'[s].pc = "alert"
    /\ run'[s].alert \in {"deleted", "delete_failed"}

\* C14: a handleDelete changes no batch (current_stock and reservations stay),
\* no order line and no challan other than the deleted one; the sales order
\* changes only when the deleted challan was linked to it, and then to status
\* 'pending_delivery', not archived; when the delete fails nothing changes.
C14_DeleteFrame ==
    [][ \A s \in Sessions :
          DeleteStep(s) =>
            /\ tbl_batches' = tbl_batches
            /\ tbl_reservations' = tbl_reservations
            /\ tbl_so_items' = tbl_so_items
            /\ \A c \in ChallanIds :
                  \/ tbl_challans'[c] = tbl_challans[c] /\ tbl_items'[c] = tbl_items[c]
                  \/ tbl_challans[c].exists /\ ~tbl_challans'[c].exists
            /\ \/ tbl_so' = tbl_so
               \/ /\ tbl_so'.status = "pending_delivery" /\ ~tbl_so'.is_archived
                  /\ \E c \in ChallanIds :
                        /\ tbl_challans[c].sales_order_id = SoId
                        /\ tbl_challans[c].exists /\ ~tbl_challans'[c].exists
            /\ run'[s].alert = "delete_failed"
                  => tbl_so' = tbl_so /\ tbl_challans' = tbl_challans /\ tbl_items' = tbl_items
      ]_vars

\* C14 witness: the challan linked to the order has been deleted, the order is
\* back at 'pending_delivery' and every batch has the stock it had
C14_Witness ==
    /\ run["s1"].pc = "alert" /\ run["s1"].alert = "deleted"
    /\ ~tbl_challans["c1"].exists
    /\ tbl_so.status = "pending_delivery"
    /\ tbl_batches = InitBatches

----------------------------------------------------------------------------
(* The Delivery Challan page under a user of either role *)

InitRoles ==
    /\ InitDb
    /\ InitUi(Roles)
    /\ ui["s2"].role = "sales"
    /\ InitPay
    /\ InitProducts
    /\ InitReturns

SpecRoles == InitRoles /\ [][Next]_vars

\* C15: no step of a session whose role is not admin takes a challan from
\* 'pending_approval' to 'approved' or 'rejected'.
C15_OnlyAdminDecides ==
    [][ ui["s1"].role # "admin" =>
          \A c \in ChallanIds :
              (tbl_challans[c].exists /\ tbl_challans[c].approval_status = "pending_approval")
                  => tbl_challans'[c].approval_status \notin {"approved", "rejected"} ]_vars

\* C15 witness: a sales user has edited and saved a challan, which is still
\* pending approval
C15_Witness ==
    /\ ui["s1"].role = "sales"
    /\ run["s1"].pc = "alert" /\ run["s1"].alert = "updated"
    /\ tbl_challans["c1"].exists
    /\ tbl_challans["c1"].approval_status = "pending_approval"

BlankReasons == {Empty, " "}

\* the step of session s is a whole handleRejectChallan
RejectStep(s) ==
    /\ run[s].pc = "idle" /\ ui[s].showRejectModal
    /\ run'[s].pc = "alert"

\* C16: a handleRejectChallan with an empty or whitespace-only reason, or with
\* no challan selected, changes no challan and ends in the request for a
\* reason; every challan that becomes 'rejected' stores a reason that is not
\* empty and not only whitespace.
C16_RejectNeedsReason ==
    [][ /\ \A s \in Sessions :
             (RejectStep(s) /\ (ui[s].rejectionReason \in BlankReasons
                                  \/ ui[s].challanToReject = NULL))
                 => /\ tbl_challans' = tbl_challans
                    /\ run'[s].alert = "Please enter a rejection reason"
        /\ \A c \in ChallanIds :
             (tbl_challans'[c].approval_status = "rejected"
                  /\ tbl_challans[c].approval_status # "rejected")
                 => tbl_challans'[c].rejection_reason \notin (BlankReasons \cup {NULL}) ]_vars

\* C16 witness: a challan has been rejected with the reason typed
C16_Witness ==
    /\ run["s1"].pc = "alert" /\ run["s1"].alert = "rejected"
    /\ tbl_challans["c1"].approval_status = "rejected"
    /\ tbl_challans["c1"].rejection_reason = "damaged"

----------------------------------------------------------------------------
(* Further properties of the payment allocation *)

PaidAmount(i) == get_invoice_paid_amount(tbl_allocations, i)

SubmitStep(s) ==
    /\ rui[s].pc = "idle" /\ rui[s].modalOpen
    /\ \/ rui'[s].pc = "insert_payment"
       \/ rui'[s].pc = "alert" /\ rui'[s].alert # "over_balance"

\* C18: a submission whose allocated total is greater than the payment amount,
\* or zero, is rejected with its alert: no payment row, no allocation row and
\* no invoice is written, and the form state stays as it was.
C18_RejectionCommitsNothing ==
    [][ \A s \in Sessions :
          (SubmitStep(s) /\ (TotalAllocated(rui[s]) > rui[s].amount
                               \/ TotalAllocated(rui[s]) = 0))
             => /\ rui'[s].pc = "alert"
                /\ rui'[s].alert \in {"exceeds_payment", "nothing_allocated"}
                /\ rui'[s] = [rui[s] EXCEPT !.pc = "alert", !.alert = rui'[s].alert]
                /\ tbl_payments' = tbl_payments
                /\ tbl_allocations' = tbl_allocations
                /\ tbl_invoices' = tbl_invoices ]_vars

\* C18 witness: a payment of 1 with 2 allocated to invoice i1 has been
\* rejected, the form as typed is still open and nothing is stored
C18_Witness ==
    /\ rui["s1"].pc = "alert" /\ rui["s1"].alert = "exceeds_payment"
    /\ rui["s1"].modalOpen
    /\ rui["s1"].amount = 1
    /\ rui["s1"].selectedAllocations["i1"] = [selected |-> TRUE, amount |-> 2]
    /\ tbl_payments = <<>> /\ tbl_allocations = <<>>

\* the step of session s is the accepted end of handleSubmit
AcceptedStep(s) == rui[s].pc = "insert_allocations" /\ rui'[s].alert = "recorded"

\* the allocation rows added by the step
NewRows == SubSeq(tbl_allocations', Len(tbl_allocations) + 1, Len(tbl_allocations'))

RowsOf(rows, i) == {k \in 1..Len(rows) : rows[k].invoice_id = i}

\* C19: an accepted payment adds, after the rows already stored, exactly one
\* allocation row for each invoice with a positive allocated amount and none
\* for any other invoice; the row carries that amount and the id of the new
\* payment; no invoice column held by the page is written and no paid_amount
\* is stored (only the payment_status kept by the backend may move).
C19_OneRowPerAllocatedInvoice ==
    [][ \A s \in Sessions :
          AcceptedStep(s)
             => /\ SubSeq(tbl_allocations', 1, Len(tbl_allocations)) = tbl_allocations
                /\ rui[s].paymentId = Len(tbl_payments)
                /\ tbl_payments' = tbl_payments
                /\ \A i \in InvoiceIds :
                      IF rui[s].selectedAllocations[i].amount > 0
                      THEN /\ Cardinality(RowsOf(NewRows, i)) = 1
                           /\ \A k \in RowsOf(NewRows, i) :
                                 NewRows[k] =
                                    [invoice_id |-> i,
                                     payment_id |-> rui[s].paymentId,
                                     allocated_amount |-> rui[s].selectedAllocations[i].amount]
                      ELSE RowsOf(NewRows, i) = {}
                /\ \A i \in InvoiceIds :
                      /\ tbl_invoices'[i] =
                            [tbl_invoices[i] EXCEPT
                                !.payment_status = tbl_invoices'[i].payment_status]
                      /\ "paid_amount" \notin DOMAIN tbl_invoices'[i] ]_vars

\* C19 witness: a payment of 1 was accepted with 1 allocated to invoice i1 and
\* invoice i2 ticked with nothing allocated; one row, for i1, is stored
C19_Witness ==
    /\ rui["s1"].pc = "alert" /\ rui["s1"].alert = "recorded"
    /\ tbl_payments = <<[customer_id |-> tbl_invoices["i1"].customer_id, amount |-> 1]>>
    /\ tbl_allocations = <<[invoice_id |-> "i1", payment_id |-> 1, allocated_amount |-> 1]>>
    /\ tbl_invoices["i2"].payment_status = "pending"

\* the form of session s allocates part of its payment amount
PartlyAllocated(s) ==
    TotalAllocated(rui[s]) > 0 /\ TotalAllocated(rui[s]) < rui[s].amount

\* what the rows added by the step allocate altogether
NewlyAllocated ==
    SumOver([k \in 1..Len(NewRows) |-> NewRows[k].allocated_amount], 1..Len(NewRows))

\* C20: a submission whose allocated total is strictly positive and strictly
\* less than the payment amount passes the validation of handleSubmit; its
\* payment row carries the full amount of the form, its allocation rows are the
\* amounts as entered, and the rest of the payment stays unallocated.
C20_PartialAllocationAccepted ==
    [][ \A s \in Sessions :
          PartlyAllocated(s)
             => /\ SubmitStep(s)
                   => \/ rui'[s].pc = "insert_payment"
                      \/ rui'[s].pc = "alert" /\ rui'[s].alert = "failed"
                /\ (rui[s].pc = "insert_payment" /\ rui'[s].pc = "insert_allocations")
                   => /\ Len(tbl_payments') = Len(tbl_payments) + 1
                      /\ rui'[s].paymentId = Len(tbl_payments')
                      /\ tbl_payments'[rui'[s].paymentId].amount = rui[s].amount
                /\ AcceptedStep(s)
                   => /\ tbl_payments'[rui[s].paymentId].amount = rui[s].amount
                      /\ NewlyAllocated = TotalAllocated(rui[s])
                      /\ \A i \in InvoiceIds :
                            rui[s].selectedAllocations[i].amount > 0
                               => \E k \in 1..Len(NewRows) :
                                     /\ NewRows[k].invoice_id = i
                                     /\ NewRows[k].allocated_amount =
                                           rui[s].selectedAllocations[i].amount
                      /\ NewlyAllocated < tbl_payments'[rui[s].paymentId].amount ]_vars

\* C20 witness: a payment of 2 with 1 allocated to invoice i1 has been
\* recorded; 1 of the payment is allocated to no invoice
C20_Witness ==
    /\ rui["s1"].pc = "alert" /\ rui["s1"].alert = "recorded"
    /\ Len(tbl_payments) = 1 /\ tbl_payments[1].amount = 2
    /\ tbl_allocations = <<[invoice_id |-> "i1", payment_id |-> 1, allocated_amount |-> 1]>>
    /\ AllocatedOf(1) = 1

\* a line of the form lacks its product or its batch or has no quantity
LacksField(item) == item.product_id = Empty \/ item.batch_id = Empty \/ item.quantity <= 0

\* session s starts a handler on the open challan form
FormHandlerStarts(s) ==
    /\ FormOpen(s)
    /\ run'[s] # run[s]
    /\ run'[s].alert # "Failed to load Sales Order items"

----------------------------------------------------------------------------
(* Products page: deleting a product *)

pagevars == <<tbl_reservations, tbl_challans, tbl_items, tbl_so, tbl_so_items,
              ui, run, hist, payvars, retvars>>

ProductsIdle(s) == pui[s].pc = "idle"

ProductsAlert(s, msg) == pui' = [pui EXCEPT ![s].pc = "alert", ![s].alert = msg]

DismissProductsAlert(s) ==
    /\ pui[s].pc = "alert"
    /\ pui' = [pui EXCEPT ![s] = IdleProducts]
    /\ UNCHANGED <<tbl_batches, tbl_products, tbl_invoice_items, tbl_batch_documents,
                   tbl_inventory_transactions, tbl_finance_expenses, tbl_product_files,
                   pagevars>>

\* rows of delivery_challan_items of a product
ChallanItemsOf(items, productId) ==
    {<<c, i>> \in ChallanIds \X (1..MaxItems) :
        i <= Len(items[c]) /\ items[c][i].product_id = productId}

\* the batches select of handleDelete, in the order the rows come
BatchesOf(tbl, productId) ==
    LET Keep(b) == b \in DOMAIN tbl /\ tbl[b].product_id = productId
    IN Filter(<<"A", "B">>, Keep)

\* handleDelete of a product row, up to its first pre-check: the select on
\* sales_invoice_items; its error is not read, so a failed select passes
Products_handleDelete(s, product) ==
    /\ ProductsIdle(s)
    /\ product \in tbl_products
    /\ \/ /\ \E r \in tbl_invoice_items : r.product_id = product
          /\ pui' = [pui EXCEPT ![s].pc = "alert", ![s].alert = "used_in_invoices",
                                ![s].product = product]
       \/ /\ ~\E r \in tbl_invoice_items : r.product_id = product
          /\ pui' = [pui EXCEPT ![s].pc = "check_challans", ![s].product = product]
       \/ pui' = [pui EXCEPT ![s].pc = "check_challans", ![s].product = product]
    /\ UNCHANGED <<tbl_batches, tbl_products, tbl_invoice_items, tbl_batch_documents,
                   tbl_inventory_transactions, tbl_finance_expenses, tbl_product_files,
                   pagevars>>

\* the second pre-check: the select on delivery_challan_items
CheckChallanItems(s) ==
    /\ pui[s].pc = "check_challans"
    /\ \/ /\ ChallanItemsOf(tbl_items, pui[s].product) # {}
          /\ ProductsAlert(s, "used_in_challans")
       \/ /\ ChallanItemsOf(tbl_items, pui[s].product) = {}
          /\ pui' = [pui EXCEPT ![s].pc = "load_batches"]
       \/ pui' = [pui EXCEPT ![s].pc = "load_batches"]
    /\ UNCHANGED <<tbl_batches, tbl_products, tbl_invoice_items, tbl_batch_documents,
                   tbl_inventory_transactions, tbl_finance_expenses, tbl_product_files,
                   pagevars>>

\* the select on batches and the confirm dialog; a failed select gives no batches
LoadBatchesAndConfirm(s) ==
    /\ pui[s].pc = "load_batches"
    /\ \E batches \in {BatchesOf(tbl_batches, pui[s].product), <<>>}, confirmDelete \in BOOLEAN :
         pui' = [pui EXCEPT ![s] =
                    IF ~confirmDelete THEN IdleProducts
                    ELSE IF Len(batches) > 0
                         THEN [@ EXCEPT !.pc = "batch_documents", !.batches = batches, !.idx = 1]
                         ELSE [@ EXCEPT !.pc = "product_transactions", !.batches = batches]]
    /\ UNCHANGED <<tbl_batches, tbl_products, tbl_invoice_items, tbl_batch_documents,
                   tbl_inventory_transactions, tbl_finance_expenses, tbl_product_files,
                   pagevars>>

\* the three deletes of the loop over batches; no result of them is read
DeleteBatchDocuments(s) ==
    /\ pui[s].pc = "batch_documents"
    /\ \/ tbl_batch_documents' =
             {r \in tbl_batch_documents : r.batch_id # pui[s].batches[pui[s].idx]}
       \/ UNCHANGED tbl_batch_documents
    /\ pui' = [pui EXCEPT ![s].pc = "batch_transactions"]
    /\ UNCHANGED <<tbl_batches, tbl_products, tbl_invoice_items,
                   tbl_inventory_transactions, tbl_finance_expenses, tbl_product_files,
                   pagevars>>

DeleteBatchTransactions(s) ==
    /\ pui[s].pc = "batch_transactions"
    /\ \/ tbl_inventory_transactions' =
             {r \in tbl_inventory_transactions : r.batch_id # pui[s].batches[pui[s].idx]}
       \/ UNCHANGED tbl_inventory_transactions
    /\ pui' = [pui EXCEPT ![s].pc = "batch_expenses"]
    /\ UNCHANGED <<tbl_batches, tbl_products, tbl_invoice_items, tbl_batch_documents,
                   tbl_finance_expenses, tbl_product_files, pagevars>>

DeleteBatchExpenses(s) ==
    /\ pui[s].pc = "batch_expenses"
    /\ \/ tbl_finance_expenses' =
             {r \in tbl_finance_expenses : r.batch_id # pui[s].batches[pui[s].idx]}
       \/ UNCHANGED tbl_finance_expenses
    /\ pui' = [pui EXCEPT ![s] =
                 IF @.idx < Len(@.batches)
                 THEN [@ EXCEPT !.pc = "batch_documents", !.idx = @ + 1]
                 ELSE [@ EXCEPT !.pc = "delete_batches"]]
    /\ UNCHANGED <<tbl_batches, tbl_products, tbl_invoice_items, tbl_batch_documents,
                   tbl_inventory_transactions, tbl_product_files, pagevars>>

\* delete of the product's rows of table batches
DeleteBatches(s) ==
    /\ pui[s].pc = "delete_batches"
    /\ \/ tbl_batches' = [b \in {x \in DOMAIN tbl_batches :
                                    tbl_batches[x].product_id # pui[s].product}
                             |-> tbl_batches[b]]
       \/ UNCHANGED tbl_batches
    /\ pui' = [pui EXCEPT ![s].pc = "product_transactions"]
    /\ UNCHANGED <<tbl_products, tbl_invoice_items, tbl_batch_documents,
                   tbl_inventory_transactions, tbl_finance_expenses, tbl_product_files,
                   pagevars>>

DeleteProductTransactions(s) ==
    /\ pui[s].pc = "product_transactions"
    /\ \/ tbl_inventory_transactions' =
             {r \in tbl_inventory_transactions : r.product_id # pui[s].product}
       \/ UNCHANGED tbl_inventory_transactions
    /\ pui' = [pui EXCEPT ![s].pc = "product_files"]
    /\ UNCHANGED <<tbl_batches, tbl_products, tbl_invoice_items, tbl_batch_documents,
                   tbl_finance_expenses, tbl_product_files, pagevars>>

DeleteProductFiles(s) ==
    /\ pui[s].pc = "product_files"
    /\ \/ tbl_product_files' = {r \in tbl_product_files : r.product_id # pui[s].product}
       \/ UNCHANGED tbl_product_files
    /\ pui' = [pui EXCEPT ![s].pc = "delete_product"]
    /\ UNCHANGED <<tbl_batches, tbl_products, tbl_invoice_items, tbl_batch_documents,
                   tbl_inventory_transactions, tbl_finance_expenses, pagevars>>

\* delete of the products row, the one call whose error is thrown
DeleteProduct(s) ==
    /\ pui[s].pc = "delete_product"
    /\ \/ /\ tbl_products' = tbl_products \ {pui[s].product}
          /\ ProductsAlert(s, "deleted")
       \/ /\ UNCHANGED tbl_products
          /\ ProductsAlert(s, "failed")
    /\ UNCHANGED <<tbl_batches, tbl_invoice_items, tbl_batch_documents,
                   tbl_inventory_transactions, tbl_finance_expenses, tbl_product_files,
                   pagevars>>

ProductsNext(s) ==
    \/ DismissProductsAlert(s)
    \/ \E p \in {"P", "Q"} : Products_handleDelete(s, p)
    \/ CheckChallanItems(s)
    \/ LoadBatchesAndConfirm(s)
    \/ DeleteBatchDocuments(s)
    \/ DeleteBatchTransactions(s)
    \/ DeleteBatchExpenses(s)
    \/ DeleteBatches(s)
    \/ DeleteProductTransactions(s)
    \/ DeleteProductFiles(s)
    \/ DeleteProduct(s)

\* the rows that can be on file for the two products: batch A of P is on
\* challan c1, batch B belongs to either product
InitProductTables ==
    /\ \E q \in {"P", "Q"} : tbl_batches = [InitBatches EXCEPT !["B"].product_id = q]
    /\ tbl_products = {"P", "Q"}
    /\ tbl_invoice_items \in SUBSET {[product_id |-> p] : p \in {"P", "Q"}}
    /\ tbl_batch_documents \in SUBSET {[batch_id |-> "B"]}
    /\ tbl_inventory_transactions \in
          SUBSET ({[product_id |-> tbl_batches[b].product_id, batch_id |-> b] : b \in BatchIds}
                    \cup {[product_id |-> "Q", batch_id |-> NULL]})
    /\ tbl_finance_expenses \in SUBSET {[batch_id |-> "B"]}
    /\ tbl_product_files \in SUBSET {[product_id |-> "Q"]}
    /\ pui = [s \in Sessions |-> IdleProducts]

InitProductsPage ==
    /\ InitProductTables
    /\ InitOrders
    /\ tbl_challans["c1"].sales_order_id = NULL
    /\ Len(tbl_items["c1"]) = 1
    /\ InitUi(Roles)
    /\ ui["s1"].role = "admin" /\ ui["s2"].role = "sales"
    /\ InitPay
    /\ InitReturns

NextProducts == ProductsNext("s1")

SpecProducts == InitProductsPage /\ [][NextProducts]_vars

\* a sales invoice item or a delivery challan item refers to the product
Referenced(productId) ==
    \/ \E r \in tbl_invoice_items : r.product_id = productId
    \/ ChallanItemsOf(tbl_items, productId) # {}

\* the step of session s belongs to a run of handleDelete
InDeleteRun(s) == pui[s].pc # "alert" /\ pui'[s].pc # "idle"

\* C22: a run of Products.handleDelete on a product that a sales invoice item
\* or a delivery challan item refers to deletes no batch, batch document,
\* inventory transaction, expense, file or product row, and ends behind one of
\* the two alerts that point the user to Deactivate.
C22_ReferencedProductKept ==
    [][ \A s \in Sessions :
          (InDeleteRun(s) /\ Referenced(pui'[s].product))
             => /\ UNCHANGED <<tbl_batches, tbl_batch_documents, tbl_inventory_transactions,
                               tbl_finance_expenses, tbl_product_files, tbl_products>>
                /\ pui'[s].pc \in {"alert", "check_challans"}
                /\ pui'[s].pc = "alert"
                      => pui'[s].alert \in {"used_in_invoices", "used_in_challans"} ]_vars

\* every challan item, material return item and inventory transaction that
\* names a batch names a row of table batches
NoDanglingBatch ==
    /\ \A c \in ChallanIds : \A i \in 1..Len(tbl_items[c]) :
          tbl_items[c][i].batch_id \in DOMAIN tbl_batches
    /\ \A k \in 1..Len(tbl_return_items) : tbl_return_items[k].batch_id \in DOMAIN tbl_batches
    /\ \A r \in tbl_inventory_transactions :
          r.batch_id # NULL => r.batch_id \in DOMAIN tbl_batches

\* the step of session s ends a run of handleDelete
DeleteRunEnds(s) == pui[s].pc \notin {"idle", "alert"} /\ pui'[s].pc \in {"idle", "alert"}

\* C23: when a run of Products.handleDelete ends, also after a failed delete
\* step, every batch that a challan item, a material return item or an
\* inventory transaction names is still on file, and a batch of the product
\* is gone only if the product row is gone too.
C23_BatchKeptWhileReferenced ==
    [][ \A s \in Sessions :
          DeleteRunEnds(s)
             => /\ NoDanglingBatch'
                /\ \A k \in 1..Len(pui[s].batches) :
                      pui[s].batches[k] \notin DOMAIN tbl_batches'
                         => pui[s].product \notin tbl_products' ]_vars

----------------------------------------------------------------------------
(* FIFO: ties and the agreement of the selection paths *)

\* batch ids in their order
IdOrder == <<"A", "B">>

IdBefore(a, b) ==
    \E i, j \in 1..Len(IdOrder) : i < j /\ IdOrder[i] = a /\ IdOrder[j] = b

\* the eligible batches of a product that share its minimum import_date
OldestEligible(productId) ==
    { b \in Eligible(productId) :
        \A o \in Eligible(productId) : tbl_batches[b].import_date <= tbl_batches[o].import_date }

\* C24: when several eligible batches of the product share the minimum
\* import_date and getFIFOBatch returns one of them, it returns the one that
\* is first by batch id, whatever order the batches were loaded in.
C24_TieBrokenByBatchId ==
    \A s \in Sessions :
        (/\ hist[s].fifo.product_id # NULL
         /\ Cardinality(OldestEligible(hist[s].fifo.product_id)) > 1
         /\ hist[s].fifo.batch \in OldestEligible(hist[s].fifo.product_id))
            => \A b \in OldestEligible(hist[s].fifo.product_id) \ {hist[s].fifo.batch} :
                  IdBefore(hist[s].fifo.batch, b)

\* the option of the batch dropdown that carries the FIFO mark: the first of
\* availableBatches, the loaded batches of the line's product
fifoIndicator(batches, productId) ==
    LET Keep(b) == b.product_id = productId
        availableBatches == Filter(batches, Keep)
    IN IF Len(availableBatches) > 0 THEN availableBatches[1].id ELSE NULL

\* the batch is past its expiry date
PastExpiry(b) ==
    b # NULL /\ tbl_batches[b].expiry_date # NoDate /\ tbl_batches[b].expiry_date < Today

\* C25: on one loaded snapshot and for one product, the batch 'Use FIFO' gets
\* from getFIFOBatch, the batch the sales-order prefill would pre-select and
\* the batch marked FIFO in the dropdown are the same, and none is expired.
C25_FifoPathsAgree ==
    [][ \A s \in Sessions :
          hist'[s].fifo # hist[s].fifo
             => LET productId == hist'[s].fifo.product_id
                    useFifo  == hist'[s].fifo.batch
                    prefill  == PrefillBatch(ui[s].batches, productId)
                    marked   == fifoIndicator(ui[s].batches, productId)
                IN /\ useFifo = prefill
                   /\ useFifo = marked
                   /\ ~PastExpiry(useFifo) /\ ~PastExpiry(prefill) /\ ~PastExpiry(marked) ]_vars

----------------------------------------------------------------------------
(* Delivery Challan page: order bookkeeping, edit frame, concurrent edits *)

RECURSIVE ProductQty(_, _)
\* total quantity of the line items of `its` of one product
ProductQty(its, productId) ==
    IF its = <<>> THEN 0
    ELSE (IF Head(its).product_id = productId THEN Head(its).quantity ELSE 0)
            + ProductQty(Tail(its), productId)

\* C26: when the bookkeeping of a create from a sales order writes an order
\* line's delivered_quantity, the line's delivered_quantity has grown by the
\* total quantity of all challan lines of its product, several lines of one
\* product included.
C26_DeliveredGrowsByProductTotal ==
    [][ \A s \in Sessions :
          (run[s].pc = "so_bookkeeping" /\ run'[s].pc = "insert_items")
             => \A i \in 1..Len(tbl_so_items) :
                   tbl_so_items'[i] # tbl_so_items[i]
                      => tbl_so_items'[i].delivered_quantity =
                            tbl_so_items[i].delivered_quantity
                               + ProductQty(ui[s].items, tbl_so_items[i].product_id) ]_vars

\* C27: the update of a challan that was created from a sales order, saved
\* from the form handleEdit opened, stores the sales_order_id the challan had.
C27_EditKeepsSalesOrder ==
    [][ \A s \in Sessions :
          (run[s].pc = "update_challan" /\ run'[s].pc = "delete_items")
             => LET c == ui[s].editingChallan
                IN tbl_challans[c].sales_order_id # NULL
                      => tbl_challans'[c].sales_order_id = tbl_challans[c].sales_order_id ]_vars

\* both sessions opened challan c for edit on the lines it still has on file,
\* both have run their adjustment loop with every write taking effect, and
\* neither has written the challan or its lines yet
BothEditing(c) ==
    \A s \in Sessions :
        /\ run[s].pc = "update_challan" /\ ~hist[s].adjFailed
        /\ ui[s].editingChallan = c
        /\ ui[s].originalItems = tbl_items[c]

\* C28: when two sessions edit the same challan from the same originalItems
\* and both save, the stock change of every batch made by the two saves is
\* (quantities of the lines before both edits) - (quantities of the lines
\* finally stored), whichever session's lines are stored last.
C28_ConcurrentEditsFollowStoredLines ==
    \A c \in ChallanIds :
        BothEditing(c) =>
            \A last \in Sessions : \A b \in BatchIds :
                StockChange(b) = SumQty(tbl_items[c], b) - SumQty(ui[last].items, b)

----------------------------------------------------------------------------
(* Delivery Challan page: challan numbers of concurrent creates *)

\* no challan is on file, or challan c1 is, numbered in this year or the last
InitNumbers ==
    /\ tbl_batches = InitBatches
    /\ tbl_reservations = [b \in BatchIds |-> IF b = "A" THEN 1 ELSE 0]
    /\ \E number \in {NoNumber, ChallanNumber("DC", YearCode, 3), LastYearNumber(5)} :
         /\ tbl_challans = [c \in ChallanIds |->
                IF c = "c1" /\ number # NoNumber
                THEN [exists |-> TRUE, approval_status |-> "pending_approval",
                      sales_order_id |-> NULL, rejection_reason |-> NULL,
                      challan_number |-> number]
                ELSE NoChallan]
         /\ tbl_items = [c \in ChallanIds |->
                IF c = "c1" /\ number # NoNumber THEN OneLineOfA ELSE <<>>]
    /\ tbl_so = [status |-> "stock_reserved", is_archived |-> FALSE]
    /\ tbl_so_items = << [product_id |-> "P", quantity |-> 2, delivered_quantity |-> 0] >>
    /\ InitUi(Roles)
    /\ ui["s1"].role = "admin" /\ ui["s2"].role = "sales"
    /\ InitPay
    /\ InitProducts
    /\ InitReturns

\* a session that creates a challan of one line entered by hand
CreateNext(s) ==
    \/ DismissAlert(s)
    \/ OpenCreate(s)
    \/ CloseModal(s)
    \/ \E p \in ProductIds : SelectProduct(s, 1, p)
    \/ \E b \in BatchIds : handleBatchChange(s, 1, b)
    \/ handleSubmit(s)
    \/ InsertChallan(s)
    \/ InsertItems(s)

NextNumbers == \E s \in Sessions : CreateNext(s)

SpecNumbers == InitNumbers /\ [][NextNumbers]_vars

\* C29: no two challans on file carry the same challan_number, also when two
\* sessions opened the create form before either of them saved.
C29_ChallanNumbersUnique ==
    \A c, d \in ChallanIds :
        (c # d /\ tbl_challans[c].exists /\ tbl_challans[d].exists)
            => tbl_challans[c].challan_number # tbl_challans[d].challan_number

----------------------------------------------------------------------------
(* Material Returns page: creating a return *)

otherpages == <<dbvars, ui, run, hist, payvars, prodvars>>

DismissReturnsAlert(s) ==
    /\ mui[s].pc = "alert"
    /\ mui' = [mui EXCEPT ![s].pc = "idle", ![s].alert = NULL, ![s].returnId = 0]
    /\ UNCHANGED <<tbl_returns, tbl_return_items, otherpages>>

\* resetForm of the page
Returns_resetForm(m) == [m EXCEPT !.formData = BlankReturnForm, !.returnItems = <<>>]

\* the "Create Material Return" button
OpenReturn(s) ==
    /\ mui[s].pc = "idle" /\ ~mui[s].modalOpen
    /\ ui[s].role \in {"admin", "sales", "manager"}              \* canManage
    /\ mui' = [mui EXCEPT ![s] = [Returns_resetForm(@) EXCEPT !.modalOpen = TRUE]]
    /\ UNCHANGED <<tbl_returns, tbl_return_items, otherpages>>

\* Modal onClose
CloseReturn(s) ==
    /\ mui[s].pc = "idle" /\ mui[s].modalOpen
    /\ mui' = [mui EXCEPT ![s] = [Returns_resetForm(@) EXCEPT !.modalOpen = FALSE]]
    /\ UNCHANGED <<tbl_returns, tbl_return_items, otherpages>>

Returns_handleCustomerChange(s, customerId) ==
    /\ mui[s].pc = "idle" /\ mui[s].modalOpen
    /\ customerId # mui[s].formData.customer_id
    /\ mui' = [mui EXCEPT ![s].formData.customer_id = customerId,
                          ![s].formData.original_dc_id = Empty,
                          ![s].returnItems = <<>>]
    /\ UNCHANGED <<tbl_returns, tbl_return_items, otherpages>>

\* handleChallanChange with its loadChallanItems, which on error only logs
handleChallanChange(s, challanId) ==
    /\ mui[s].pc = "idle" /\ mui[s].modalOpen
    /\ mui[s].formData.customer_id # Empty
    /\ challanId # mui[s].formData.original_dc_id
    /\ LET data == IF challanId \in ChallanIds THEN tbl_items[challanId] ELSE <<>>
           items == [i \in 1..Len(data) |->
                       [product_id |-> data[i].product_id, batch_id |-> data[i].batch_id,
                        quantity_returned |-> 0, original_quantity |-> data[i].quantity]]
       IN
       \/ /\ challanId = Empty
          /\ mui' = [mui EXCEPT ![s].formData.original_dc_id = Empty, ![s].returnItems = <<>>]
       \/ /\ challanId \in ChallanIds /\ tbl_challans[challanId].exists
          /\ \/ mui' = [mui EXCEPT ![s].formData.original_dc_id = challanId,
                                   ![s].returnItems = items]
             \/ mui' = [mui EXCEPT ![s].formData.original_dc_id = challanId]
    /\ UNCHANGED <<tbl_returns, tbl_return_items, otherpages>>

\* the Return Qty input of a line: parseFloat(value) || 0
updateReturnItem(s, index, value) ==
    /\ mui[s].pc = "idle" /\ mui[s].modalOpen
    /\ index \in 1..Len(mui[s].returnItems)
    /\ value # mui[s].returnItems[index].quantity_returned
    /\ mui' = [mui EXCEPT ![s].returnItems[index].quantity_returned = value]
    /\ UNCHANGED <<tbl_returns, tbl_return_items, otherpages>>

\* the Return Reason field
SetReturnReason(s, reason) ==
    /\ mui[s].pc = "idle" /\ mui[s].modalOpen
    /\ reason # mui[s].formData.return_reason
    /\ mui' = [mui EXCEPT ![s].formData.return_reason = reason]
    /\ UNCHANGED <<tbl_returns, tbl_return_items, otherpages>>

\* validItems with the filter left out
validItemsUnfiltered(returnItems) == returnItems

\* validItems: the lines with a return quantity
validItems(returnItems) ==
    LET Keep(item) == item.quantity_returned > 0
    IN Filter(returnItems, Keep)

\* handleSubmit of the return form, up to and with the insert of the return
Returns_handleSubmit(s) ==
    /\ mui[s].pc = "idle" /\ mui[s].modalOpen
    /\ Len(tbl_returns) < MaxReturns
    /\ LET formData == mui[s].formData
           valid == validItems(mui[s].returnItems)
           hasInvalidQuantities ==
               \E i \in 1..Len(valid) :
                   valid[i].quantity_returned > valid[i].original_quantity
       IN IF formData.customer_id = Empty \/ formData.original_dc_id = Empty
                \/ formData.return_reason = Empty
          THEN /\ mui' = [mui EXCEPT ![s].pc = "alert", ![s].alert = "required"]
               /\ UNCHANGED tbl_returns
          ELSE IF Len(valid) = 0
          THEN /\ mui' = [mui EXCEPT ![s].pc = "alert", ![s].alert = "no_items"]
               /\ UNCHANGED tbl_returns
          ELSE IF hasInvalidQuantities
          THEN /\ mui' = [mui EXCEPT ![s].pc = "alert", ![s].alert = "exceeds_original"]
               /\ UNCHANGED tbl_returns
          ELSE \/ /\ tbl_returns' = Append(tbl_returns,
                                       [customer_id |-> formData.customer_id,
                                        original_dc_id |-> formData.original_dc_id,
                                        return_reason |-> formData.return_reason,
                                        status |-> "pending_approval"])
                  /\ mui' = [mui EXCEPT ![s].pc = "insert_return_items",
                                        ![s].returnId = Len(tbl_returns) + 1]
               \/ /\ mui' = [mui EXCEPT ![s].pc = "alert", ![s].alert = "failed"]
                  \* returnError
                  /\ UNCHANGED tbl_returns
    /\ UNCHANGED <<tbl_return_items, otherpages>>

\* the insert of the return items, then the form is closed and reset
InsertReturnItems(s) ==
    /\ mui[s].pc = "insert_return_items"
    /\ LET valid == validItems(mui[s].returnItems)
           itemsToInsert == [i \in 1..Len(valid) |->
               [return_id |-> mui[s].returnId, product_id |-> valid[i].product_id,
                batch_id |-> valid[i].batch_id,
                quantity_returned |-> valid[i].quantity_returned,
                original_quantity |-> valid[i].original_quantity]]
       IN
       \/ /\ tbl_return_items' = tbl_return_items \o itemsToInsert
          /\ mui' = [mui EXCEPT ![s] = [Returns_resetForm(@) EXCEPT
                                           !.modalOpen = FALSE, !.pc = "alert",
                                           !.alert = "created"]]
       \/ /\ mui' = [mui EXCEPT ![s].pc = "alert", ![s].alert = "failed"]    \* itemsError
          /\ UNCHANGED tbl_return_items
    /\ UNCHANGED <<tbl_returns, otherpages>>

ReturnsNext(s) ==
    \/ DismissReturnsAlert(s)
    \/ OpenReturn(s)
    \/ CloseReturn(s)
    \/ \E customerId \in {Empty, "cust"} : Returns_handleCustomerChange(s, customerId)
    \/ \E challanId \in {Empty} \cup ChallanIds : handleChallanChange(s, challanId)
    \/ \E i \in 1..MaxItems, value \in -1..MaxQty : updateReturnItem(s, i, value)
    \/ \E reason \in {Empty, "damaged"} : SetReturnReason(s, reason)
    \/ Returns_handleSubmit(s)
    \/ InsertReturnItems(s)

\* challan c1 is on file with its one or two lines of quantity 1
InitReturnsPage ==
    /\ InitDb
    /\ tbl_challans["c1"].sales_order_id = NULL
    /\ InitUi(Roles)
    /\ ui["s1"].role = "admin" /\ ui["s2"].role = "sales"
    /\ InitPay
    /\ InitProducts
    /\ InitReturns

NextReturns == ReturnsNext("s1")

SpecReturns == InitReturnsPage /\ [][NextReturns]_vars

ReturnsIdle(s) == mui[s].pc = "idle"

\* the form of session s is complete: customer, challan and reason are set and
\* some line has a return quantity
ReturnFormComplete(s) ==
    /\ mui[s].formData.customer_id # Empty
    /\ mui[s].formData.original_dc_id # Empty
    /\ mui[s].formData.return_reason # Empty
    /\ \E i \in 1..Len(mui[s].returnItems) : mui[s].returnItems[i].quantity_returned > 0

\* the lines of the form of session s with a return quantity, as stored rows
EnteredLines(s) ==
    LET Entered(item) == item.quantity_returned > 0
        lines == Filter(mui[s].returnItems, Entered)
    IN [i \in 1..Len(lines) |->
           [return_id |-> mui[s].returnId, product_id |-> lines[i].product_id,
            batch_id |-> lines[i].batch_id,
            quantity_returned |-> lines[i].quantity_returned,
            original_quantity |-> lines[i].original_quantity]]

SomeLineExceeds(s) ==
    \E i \in 1..Len(mui[s].returnItems) :
        mui[s].returnItems[i].quantity_returned > mui[s].returnItems[i].original_quantity

\* C30: a material return is stored only from a form whose customer, original
\* challan and reason are set and which has a line with a return quantity above
\* zero; the stored lines are exactly the lines with a return quantity above
\* zero, each with 0 < quantity_returned <= original_quantity; and a submit of a
\* form with a line above its original quantity stores nothing.
C30_ReturnCreation ==
    [][ /\ (tbl_returns' # tbl_returns) =>
              \E s \in Sessions :
                 /\ ReturnsIdle(s) /\ ReturnFormComplete(s)
                 /\ Len(tbl_returns') = Len(tbl_returns) + 1
                 /\ tbl_returns'[Len(tbl_returns')].customer_id = mui[s].formData.customer_id
                 /\ tbl_returns'[Len(tbl_returns')].original_dc_id = mui[s].formData.original_dc_id
        /\ (tbl_return_items' # tbl_return_items) =>
              \E s \in Sessions :
                 /\ mui[s].returnId \in 1..Len(tbl_returns)
                 /\ tbl_return_items' = tbl_return_items \o EnteredLines(s)
        /\ \A i \in 1..Len(tbl_return_items') :
              /\ 0 < tbl_return_items'[i].quantity_returned
              /\ tbl_return_items'[i].quantity_returned <= tbl_return_items'[i].original_quantity
        /\ \A s \in Sessions :
              (ReturnsIdle(s) /\ SomeLineExceeds(s)) =>
                  UNCHANGED <<tbl_returns, tbl_return_items>> ]_vars

\* a return of one line of a two-line challan was stored: the line left at zero
\* has no row
C30_Witness ==
    /\ mui["s1"].alert = "created"
    /\ Len(tbl_items["c1"]) = 2
    /\ Len(tbl_returns) = 1
    /\ Len(tbl_return_items) = 1
    /\ tbl_return_items[1].return_id = 1
    /\ tbl_return_items[1].quantity_returned = 1
    /\ tbl_return_items[1].original_quantity = 1

====
